---- MODULE Spec2Model ----
(***************************************************************************)
(* Wedefin analytics dashboard: the Index Performance page                 *)
(* (src/pages/1_*_Index_Performance.py) and the Index Composition page     *)
(* (src/pages/2_*_Index_Composition.py).                                   *)
(*                                                                         *)
(* One render of a page is one top-to-bottom run of its script; pc is the  *)
(* position of the run.  Tables (pandas DataFrames) are sequences of       *)
(* records, in row order.  Floating-point numbers are exact rationals      *)
(* extended with +inf, -inf and NaN, with the IEEE-754 rules for the       *)
(* special values (x/0, inf-inf, 0*inf, comparisons with NaN); rounding    *)
(* and the sign of zero are not modelled.                                  *)
(***************************************************************************)
EXTENDS Integers, Sequences, FiniteSets, TLC

VARIABLES
    page,            \* which page script is running
    pc,              \* position of the run
    selected_chains, \* st.multiselect result, a sequence
    frames,          \* list of fetched tables
    warnings,        \* chains whose fetch raised (one st.warning each)
    df_all,          \* concatenated raw table
    df_daily,        \* one row per (chain, date)
    global_min, global_max,
    preset, custom_start, custom_end,
    start_date, end_date,
    rebase,          \* the checkbox
    sort_ties,       \* how the build's unstable sort orders equal keys
    df_win,          \* the windowed table
    cvar_conf, rf_annual,
    metrics_df,      \* sequence of metric rows
    messages,        \* the st.warning / st.error boxes shown so far
    wedx,            \* what the composition endpoint serves (a list of snapshots)
    exc,             \* what the exchange-data endpoint serves for the chain
    df_w,            \* composition in long form
    price_map,       \* build_price_map's result
    nearest_tol_hours, top_n, event_threshold,
    miss_ct,         \* rows without a matched price
    dfv,             \* the priced rows
    alloc,           \* allocation table
    alloc_top,       \* allocation grouped to Top-N + "Other"
    hhi, turnover, events,
    avg_effN, avg_turn, \* the KPIs
    infura_key,      \* the secret of the Treasury and Accounting pages
    refresh,         \* "Refresh balances" was pressed for this render
    cache,           \* st.cache_data: cached call |-> its value
    attempts,        \* the balance and price calls made by this render
    requests,        \* the calls of this render that went to the network
    errors,          \* compute_balances' list of warning strings
    treasury_rows, owner_eth_rows, owner_wedt_rows,
    owner_eth_total, eth_usd,
    totals_stats,    \* "totals" of the revenue-stats endpoint, or None
    kpis,            \* the four KPI boxes
    held,            \* the validators a caller of get_json keeps
    last_ok,         \* the validators of the last response that carried a body
    exchange,        \* the get_json calls: arguments, request, response, result
    ncalls,          \* get_json calls made so far
    erc_in,          \* an owner address, eth_call results and a decimals hint
    erc_out          \* what the ERC-20 helpers make of them

\* the state of the Index Composition page beyond the window
compVars == << wedx, exc, df_w, price_map, nearest_tol_hours, top_n,
               event_threshold, miss_ct, dfv, alloc, alloc_top, hhi,
               turnover, events, avg_effN, avg_turn >>

\* the state of the Treasury and Accounting pages
balVars == << infura_key, refresh, cache, attempts, requests, errors,
              treasury_rows, owner_eth_rows, owner_wedt_rows,
              owner_eth_total, eth_usd, totals_stats, kpis >>

\* the state of the callers of src/lib/services/api.py and of the ERC-20
\* helpers
libVars == << held, last_ok, exchange, ncalls, erc_in, erc_out >>

vars == << page, pc, selected_chains, frames, warnings, df_all, df_daily,
           global_min, global_max, preset, custom_start, custom_end,
           start_date, end_date, rebase, sort_ties, df_win,
           cvar_conf, rf_annual, metrics_df, messages, compVars, balVars,
           libVars >>

(***************************************************************************)
(* Bounds of the model.                                                    *)
(***************************************************************************)
MaxRows == 2        \* raw observations fetched in one render (all chains)
MaxSeries == 4      \* length of a value series in the metrics specification
MaxSnaps == 2       \* snapshots of the composition feed in one render
MaxDays == 3        \* days of the feed in the analytics specification
MaxCalls == 3       \* consecutive get_json calls of one caller

(***************************************************************************)
(* Extended rationals: float64 without rounding.                           *)
(***************************************************************************)
Abs(x) == IF x < 0 THEN -x ELSE x

RECURSIVE GCD(_, _)
GCD(a, b) == IF b = 0 THEN a ELSE GCD(b, a % b)

NaN == [k |-> "nan", n |-> 0, d |-> 1]
PInf == [k |-> "inf", n |-> 1, d |-> 1]
NInf == [k |-> "inf", n |-> -1, d |-> 1]

\* the rational n/d (d # 0) in lowest terms with a positive denominator
Rat(n, d) ==
    LET g == GCD(Abs(n), Abs(d))
        s == IF d < 0 THEN -1 ELSE 1
    IN  [k |-> "fin", n |-> (s * n) \div g, d |-> Abs(d) \div g]

F(i) == Rat(i, 1)

isna(x) == x.k = "nan"
IsFin(x) == x.k = "fin"
IsInf(x) == x.k = "inf"
Sign(x) == IF x.n > 0 THEN 1 ELSE IF x.n < 0 THEN -1 ELSE 0
InfOf(s) == IF s > 0 THEN PInf ELSE NInf

FNeg(x) == IF isna(x) THEN NaN ELSE [x EXCEPT !.n = -x.n]

FAdd(x, y) ==
    CASE isna(x) \/ isna(y) -> NaN
      [] IsInf(x) /\ IsInf(y) -> IF x.n = y.n THEN x ELSE NaN
      [] IsInf(x) -> x
      [] IsInf(y) -> y
      [] OTHER -> Rat(x.n * y.d + y.n * x.d, x.d * y.d)

FSub(x, y) == FAdd(x, FNeg(y))

FMul(x, y) ==
    CASE isna(x) \/ isna(y) -> NaN
      [] IsInf(x) \/ IsInf(y) ->
            IF Sign(x) * Sign(y) = 0 THEN NaN ELSE InfOf(Sign(x) * Sign(y))
      [] OTHER -> Rat(x.n * y.n, x.d * y.d)

\* x / y; a zero divisor gives +-inf, or NaN for 0/0, and never raises
FDiv(x, y) ==
    CASE isna(x) \/ isna(y) -> NaN
      [] IsInf(x) /\ IsInf(y) -> NaN
      [] IsInf(x) -> InfOf(Sign(x) * (IF Sign(y) < 0 THEN -1 ELSE 1))
      [] IsInf(y) -> F(0)
      [] y.n = 0 -> IF x.n = 0 THEN NaN ELSE InfOf(Sign(x))
      [] OTHER -> Rat(x.n * y.d, x.d * y.n)

\* comparisons; any comparison with NaN is false
FLe(x, y) ==
    CASE isna(x) \/ isna(y) -> FALSE
      [] IsInf(x) -> x.n < 0 \/ (IsInf(y) /\ y.n > 0)
      [] IsInf(y) -> y.n > 0
      [] OTHER -> x.n * y.d <= y.n * x.d

FLt(x, y) == FLe(x, y) /\ x # y
FGt(x, y) == FLt(y, x)

(***************************************************************************)
(* Sequences as tables.                                                    *)
(***************************************************************************)
Range(s) == {s[i] : i \in 1..Len(s)}

RECURSIVE Concat(_)
Concat(ss) == IF ss = << >> THEN << >> ELSE Head(ss) \o Concat(Tail(ss))

Reverse(s) == [i \in 1..Len(s) |-> s[Len(s) + 1 - i]]

\* lexicographic order of two sort keys (tuples of integers of one length)
KeyLt(a, b) ==
    \E k \in 1..Len(a) : a[k] < b[k] /\ \A m \in 1..(k - 1) : a[m] = b[m]

\* stable sort of the rows s by their keys key[i]: equal keys keep their order
StableSort(s, key) ==
    LET n == Len(s)
        pos(i) == 1 + Cardinality({j \in 1..n :
                        KeyLt(key[j], key[i]) \/ (key[j] = key[i] /\ j < i)})
    IN  [p \in 1..n |-> s[CHOOSE i \in 1..n : pos(i) = p]]

\* the elements of a set of integers in increasing order
Ascending(S) ==
    [p \in 1..Cardinality(S) |->
        CHOOSE x \in S : Cardinality({y \in S : y < x}) = p - 1]

SetMin(S) == CHOOSE x \in S : \A y \in S : x <= y
SetMax(S) == CHOOSE x \in S : \A y \in S : x >= y
Max2(a, b) == IF a >= b THEN a ELSE b
Min2(a, b) == IF a <= b THEN a ELSE b

(***************************************************************************)
(* Dates.  A date is its number of days since 1970-01-01; pandas' .dt.date *)
(* truncates a timestamp to its day.  Timestamps are counted in whole      *)
(* seconds since the epoch (the feed's milliseconds do not fit the model   *)
(* checker's integers; no step of the page looks below the second).  Year  *)
(* and January 1st follow the proleptic Gregorian calendar of              *)
(* datetime.date.                                                          *)
(***************************************************************************)
SecPerDay == 86400

DateOf(ts) == ts \div SecPerDay

\* date.year
YearOf(day) ==
    LET z == day + 719468
        era == z \div 146097
        doe == z - era * 146097
        yoe == (doe - doe \div 1460 + doe \div 36524 - doe \div 146096) \div 365
        doy == doe - (365 * yoe + yoe \div 4 - yoe \div 100)
        mp == (5 * doy + 2) \div 153
        m == IF mp < 10 THEN mp + 3 ELSE mp - 9
    IN  yoe + era * 400 + (IF m <= 2 THEN 1 ELSE 0)

\* date(y, 1, 1)
Jan1(y) ==
    LET yy == y - 1
        era == yy \div 400
        yoe == yy - era * 400
        doe == yoe * 365 + yoe \div 4 - yoe \div 100 + 306
    IN  era * 146097 + doe - 719468

(***************************************************************************)
(* Index Performance page: controls and feed.                              *)
(***************************************************************************)
CHAINS == << "ethereum", "base", "arbitrum" >>

Presets == {"Last 7 days", "Last 30 days", "YTD", "All", "Custom range"}

\* the order of the chain names as strings (sort_values on "chain")
ChainRank(c) == CASE c = "arbitrum" -> 1 [] c = "base" -> 2 [] c = "ethereum" -> 3

\* 2023-12-31 00:00:01, 2023-12-31 13:53:20, 2024-01-10 00:00:00
FeedTimes == {19722 * SecPerDay + 1, 19722 * SecPerDay + 50000,
              19732 * SecPerDay}
FeedValues == {1, 2}
CustomDates == {19722}
\* the defaults of the two sliders of the metrics section: confidence in
\* tenths of a percent (99.5), annual risk-free rate in percent
DefaultConf == 995
DefaultRiskFree == 4
ConfLevels == {900, DefaultConf}
RiskFree == {0, DefaultRiskFree}

Observation == [timestamp : FeedTimes, value : FeedValues]

\* the JSON arrays a feed can return: at most k observations, in the order
\* the source emits them (timestamps never decrease)
Feeds(k) ==
    {s \in UNION {[1..n -> Observation] : n \in 0..k} :
        \A i \in 1..(Len(s) - 1) : s[i].timestamp <= s[i + 1].timestamp}

\* the sort key ["chain", "datetime"] of each row
RowKey(tbl) == [i \in 1..Len(tbl) |-> <<ChainRank(tbl[i].chain), tbl[i].datetime>>]

\* fetch_chain_data on a successful response
fetch_chain_data(chain, raw) ==
    IF raw = << >> THEN << >>
    ELSE LET df == [i \in 1..Len(raw) |->
                        [datetime |-> raw[i].timestamp,
                         value |-> raw[i].value,
                         chain |-> chain]]
         IN  StableSort(df, RowKey(df))

RowsFetched == Len(Concat(frames))

\* a message box: st.warning or st.error with its text; arg is the chain a
\* load failure names
Message(kind, text, arg) == [kind |-> kind, text |-> text, arg |-> arg]

\* st.warning(f"Failed to load {c}: {e}")
FailedToLoad(c) == Message("warning", "Failed to load", c)

\* the warning of lines 104-106 and 114-116
NoDataInWindow ==
    Message("warning", "No data in the selected window. Try widening the date range or picking different chains.", "")

\* one iteration of the fetch loop: the request raises, or returns a table
FetchChain ==
    /\ page = "performance" /\ pc = "fetch"
    /\ Len(frames) + Len(warnings) < Len(selected_chains)
    /\ LET c == selected_chains[Len(frames) + Len(warnings) + 1] IN
        \/ /\ warnings' = Append(warnings, c)
           /\ messages' = Append(messages, FailedToLoad(c))
           /\ frames' = frames
        \/ /\ \E raw \in Feeds(MaxRows - RowsFetched) :
                 frames' = Append(frames, fetch_chain_data(c, raw))
           /\ warnings' = warnings
           /\ messages' = messages
    /\ UNCHANGED << page, pc, selected_chains, df_all, df_daily, global_min,
                    global_max, preset, custom_start, custom_end, start_date,
                    end_date, rebase, sort_ties, df_win, cvar_conf, rf_annual,
                    metrics_df >>
    /\ UNCHANGED compVars
    /\ UNCHANGED balVars
    /\ UNCHANGED libVars

\* a loop that a failure ends (the mutant)
LoopDoneAtFailure ==
    \/ Len(frames) + Len(warnings) = Len(selected_chains)
    \/ warnings # << >>

\* the for loop of lines 51-55 has gone through every selected chain
LoopDone == Len(frames) + Len(warnings) = Len(selected_chains)

\* "if not frames: st.stop()"
StopNoFrames ==
    /\ page = "performance" /\ pc = "fetch"
    /\ LoopDone /\ frames = << >>
    /\ pc' = "stopped"
    /\ UNCHANGED << page, selected_chains, frames, warnings, df_all, df_daily,
                    global_min, global_max, preset, custom_start, custom_end,
                    start_date, end_date, rebase, sort_ties, df_win,
                    cvar_conf, rf_annual, metrics_df >>
    /\ UNCHANGED << messages, compVars >>
    /\ UNCHANGED balVars
    /\ UNCHANGED libVars

\* the rows of s at the positions I, in increasing position
Take(s, I) ==
    [p \in 1..Cardinality(I) |->
        s[CHOOSE i \in I : Cardinality({j \in I : j < i}) = p - 1]]

\* Series.idxmin over the rows G of s (the mutant of idxmax)
idxmin(s, G) ==
    CHOOSE i \in G :
        /\ \A j \in G : s[i].datetime <= s[j].datetime
        /\ \A j \in G : s[j].datetime = s[i].datetime => i <= j

\* Series.idxmax over the rows G of s: the first row holding the maximum
idxmax(s, G) ==
    CHOOSE i \in G :
        /\ \A j \in G : s[i].datetime >= s[j].datetime
        /\ \A j \in G : s[j].datetime = s[i].datetime => i <= j

\* the sort key ["chain", "date", "datetime"] of each row
DayKey(tbl) ==
    [i \in 1..Len(tbl) |->
        <<ChainRank(tbl[i].chain), tbl[i].date, tbl[i].datetime>>]

\* the sort key ["chain", "date"] of each row
ChainDateKey(tbl) == [i \in 1..Len(tbl) |-> <<ChainRank(tbl[i].chain), tbl[i].date>>]

\* pd.concat(frames).sort_values(["chain", "datetime"]), with the date column
ConcatFrames(fs) ==
    LET all == StableSort(Concat(fs), RowKey(Concat(fs)))
    IN  [i \in 1..Len(all) |->
            [datetime |-> all[i].datetime, value |-> all[i].value,
             chain |-> all[i].chain, date |-> DateOf(all[i].datetime)]]

\* one row per (chain, date): the row of the day's maximum datetime
DailyReduce(all) ==
    LET s == StableSort(all, DayKey(all))
        n == Len(s)
        grp(i) == {j \in 1..n : s[j].chain = s[i].chain /\ s[j].date = s[i].date}
        idx == {i \in 1..n : i = idxmax(s, grp(i))}
        picked == StableSort(Take(s, idx), ChainDateKey(Take(s, idx)))
    IN  [i \in 1..Len(picked) |->
            [date |-> picked[i].date, chain |-> picked[i].chain,
             value |-> picked[i].value,
             datetime |-> picked[i].date * SecPerDay]]

DatesOf(tbl) == {tbl[i].date : i \in 1..Len(tbl)}

\* lines 60-80; .dt on the empty (object-typed) table raises AttributeError
BuildDaily ==
    /\ page = "performance" /\ pc = "fetch"
    /\ LoopDone /\ frames # << >>
    /\ df_all' = ConcatFrames(frames)
    /\ IF df_all' = << >>
       THEN /\ pc' = "crashed"
            /\ UNCHANGED << df_daily, global_min, global_max >>
       ELSE /\ pc' = "daily"
            /\ df_daily' = DailyReduce(df_all')
            /\ global_min' = SetMin(DatesOf(df_daily'))
            /\ global_max' = SetMax(DatesOf(df_daily'))
    /\ UNCHANGED << page, selected_chains, frames, warnings, preset,
                    custom_start, custom_end, start_date, end_date, rebase,
                    sort_ties, df_win, cvar_conf, rf_annual, metrics_df >>
    /\ UNCHANGED << messages, compVars >>
    /\ UNCHANGED balVars
    /\ UNCHANGED libVars

\* preset_to_range with "today" taken from the custom end date (the mutant)
preset_to_range_custom_today(p, gmin, gmax, cs, ce) ==
    LET today == ce IN
    CASE p = "Last 7 days" -> << today - 7, today >>
      [] p = "Last 30 days" -> << today - 30, today >>
      [] p = "YTD" -> << Jan1(YearOf(today)), today >>
      [] p = "All" -> << gmin, gmax >>
      [] OTHER -> << cs, ce >>

\* preset_to_range on the Index Performance page
preset_to_range(p, gmin, gmax, cs, ce) ==
    LET today == gmax IN
    CASE p = "Last 7 days" -> << today - 7, today >>
      [] p = "Last 30 days" -> << today - 30, today >>
      [] p = "YTD" -> << Jan1(YearOf(today)), today >>
      [] p = "All" -> << gmin, gmax >>
      [] OTHER -> << cs, ce >>

\* the clamp without its first line (the mutant)
ClampEndOnly(rng, gmin, gmax) == << rng[1], Min2(rng[2], gmax) >>

\* "start_date = max(start_date, global_min); end_date = min(end_date, global_max)"
ClampWindow(rng, gmin, gmax) == << Max2(rng[1], gmin), Min2(rng[2], gmax) >>

\* the filter without its upper bound (the mutant)
InWindowFromStart(tbl, s, e) == SelectSeq(tbl, LAMBDA r : r.date >= s)

\* (date >= start_date) & (date <= end_date)
InWindow(tbl, s, e) == SelectSeq(tbl, LAMBDA r : r.date >= s /\ r.date <= e)

\* lines 94-116: resolve the window, filter, stop on an empty window
ResolveWindow ==
    /\ page = "performance" /\ pc = "daily"
    /\ \E p \in Presets :
        /\ preset' = p
        /\ LET w == ClampWindow(preset_to_range(p, global_min, global_max,
                                                custom_start, custom_end),
                                global_min, global_max)
           IN  /\ start_date' = w[1] /\ end_date' = w[2]
               /\ IF InWindow(df_daily, w[1], w[2]) = << >>
                  THEN pc' = "stopped" /\ df_win' = << >>
                  ELSE /\ df_win' = InWindow(df_all, w[1], w[2])
                       /\ pc' = IF df_win' = << >> THEN "stopped" ELSE "windowed"
               /\ messages' = IF pc' = "stopped"
                               THEN Append(messages, NoDataInWindow)
                               ELSE messages
    /\ UNCHANGED << page, selected_chains, frames, warnings, df_all, df_daily,
                    global_min, global_max, custom_start, custom_end, rebase,
                    sort_ties, cvar_conf, rf_annual, metrics_df >>
    /\ UNCHANGED compVars
    /\ UNCHANGED balVars
    /\ UNCHANGED libVars

(***************************************************************************)
(* Rebasing (lines 121-129).                                               *)
(***************************************************************************)
\* the sort key "date" of each row
DateKey(tbl) == [i \in 1..Len(tbl) |-> <<tbl[i].date>>]

\* the orders in which a sort that is not stable can leave equal keys;
\* one order per build and input, so it is drawn once per render
TieOrders == {"keep", "reverse"}

\* sort_values("date"): a single-column sort uses quicksort, which is not
\* stable; rows of one date come out in the order the build happens to give
SortByDate(tbl, ties) ==
    IF ties = "keep" THEN StableSort(tbl, DateKey(tbl))
    ELSE StableSort(Reverse(tbl), DateKey(Reverse(tbl)))

ChainsOf(tbl) == {tbl[i].chain : i \in 1..Len(tbl)}

\* groupby("chain")["value"].first() of the date-sorted table
first_vals(tbl, ties) ==
    LET s == SortByDate(tbl, ties)
    IN  [c \in ChainsOf(tbl) |->
            s[CHOOSE i \in 1..Len(s) :
                /\ s[i].chain = c
                /\ \A j \in 1..(i - 1) : s[j].chain # c].value]

\* a rebase that writes the index over the value column (the mutant)
RebaseOverValue(tbl, ties) ==
    LET fv == first_vals(tbl, ties)
    IN  [i \in 1..Len(tbl) |->
            [datetime |-> tbl[i].datetime, chain |-> tbl[i].chain,
             date |-> tbl[i].date,
             value |-> FMul(FDiv(F(tbl[i].value), F(fv[tbl[i].chain])), F(100)).n,
             first_value |-> fv[tbl[i].chain],
             index |-> FMul(FDiv(F(tbl[i].value), F(fv[tbl[i].chain])), F(100))]]

\* merge of first_value on chain, index = value / first_value * 100
Rebase(tbl, ties) ==
    LET fv == first_vals(tbl, ties)
    IN  [i \in 1..Len(tbl) |->
            [datetime |-> tbl[i].datetime, chain |-> tbl[i].chain,
             date |-> tbl[i].date, value |-> tbl[i].value,
             first_value |-> fv[tbl[i].chain],
             index |-> FMul(FDiv(F(tbl[i].value), F(fv[tbl[i].chain])), F(100))]]

RebaseStep ==
    /\ page = "performance" /\ pc = "windowed"
    /\ \E b \in BOOLEAN, ties \in TieOrders :
        /\ rebase' = b
        /\ sort_ties' = ties
        /\ df_win' = IF b THEN Rebase(df_win, ties) ELSE df_win
    /\ pc' = "rebased"
    /\ UNCHANGED << page, selected_chains, frames, warnings, df_all, df_daily,
                    global_min, global_max, preset, custom_start, custom_end,
                    start_date, end_date, cvar_conf, rf_annual, metrics_df >>
    /\ UNCHANGED << messages, compVars >>
    /\ UNCHANGED balVars
    /\ UNCHANGED libVars

(***************************************************************************)
(* Risk and performance metrics (lines 223-273).                           *)
(***************************************************************************)
RECURSIVE FSum(_)
FSum(s) == IF s = << >> THEN F(0) ELSE FAdd(Head(s), FSum(Tail(s)))

\* Series.mean of a series without NaN
Mean(s) == FDiv(FSum(s), F(Len(s)))

\* the square of Series.std (ddof = 1); NaN for fewer than two values
Variance(s) ==
    IF Len(s) < 2 THEN NaN
    ELSE LET m == Mean(s)
             sq == [i \in 1..Len(s) |-> FMul(FSub(s[i], m), FSub(s[i], m))]
         IN  FDiv(FSum(sq), F(Len(s) - 1))

\* std * 365 ** 0.5 * 100 for the squared deviation x: 0 for 0, NaN for
\* NaN, else the radicand tagged "root" (the value is irrational in general)
AnnualizedPct(x) ==
    IF IsFin(x) /\ x.n # 0 THEN [x EXCEPT !.k = "root"] ELSE x

\* s.pct_change().dropna()
pct_change(s) ==
    LET raw == [i \in 1..(Len(s) - 1) |-> FSub(FDiv(s[i + 1], s[i]), F(1))]
    IN  SelectSeq(raw, LAMBDA x : ~isna(x))

\* the maximum of a non-empty series of finite values
SeriesMax(s) == CHOOSE x \in Range(s) : \A y \in Range(s) : FLe(y, x)

cummax(s) == [i \in 1..Len(s) |-> SeriesMax(SubSeq(s, 1, i))]

\* Series.min: NaN entries are skipped; NaN when nothing is left
SeriesMin(s) ==
    LET v == {x \in Range(s) : ~isna(x)}
    IN  IF v = {} THEN NaN ELSE CHOOSE x \in v : \A y \in v : FLe(x, y)

\* "s.iloc[-1] / s.iloc[0]" without the "- 1.0" (the mutant)
CumRetNoMinusOne(s) == FDiv(s[Len(s)], s[1])

\* "cum_ret = s.iloc[-1] / s.iloc[0] - 1.0"
CumRet(s) == FSub(FDiv(s[Len(s)], s[1]), F(1))

\* "drawdown = s / roll_max - 1.0; max_dd = drawdown.min()"
MaxDD(s) ==
    LET roll_max == cummax(s)
        drawdown == [i \in 1..Len(s) |-> FSub(FDiv(s[i], roll_max[i]), F(1))]
    IN  SeriesMin(drawdown)

\* numpy's linear interpolation between neighbours a <= b
Lerp(a, b, g) ==
    LET diff == FSub(b, a)
    IN  IF FLt(g, Rat(1, 2)) THEN FAdd(a, FMul(diff, g))
        ELSE FSub(b, FMul(diff, FSub(F(1), g)))

\* the rank of each value of a series without NaN: how many are below it
ValueRank(r) ==
    [i \in 1..Len(r) |-> <<Cardinality({j \in 1..Len(r) : FLt(r[j], r[i])})>>]

\* Series.quantile(q), interpolation "linear", of a non-empty series
Quantile(r, q) ==
    LET srt == StableSort(r, ValueRank(r))
        m == Len(srt)
        pos == FMul(q, F(m - 1))
        lo == pos.n \div pos.d
        hi == Min2(lo + 1, m - 1)
        g == FSub(pos, F(lo))
    IN  Lerp(srt[lo + 1], srt[hi + 1], g)

\* "alpha = (100.0 - cvar_conf) / 100.0", cvar_conf in tenths of a percent
Alpha(conf) == Rat(1000 - conf, 1000)

\* "tail = r[r <= var]; es = tail.mean() if not tail.empty else nan"
ExpectedShortfall(r, var) ==
    LET tail == SelectSeq(r, LAMBDA x : FLe(x, var))
    IN  IF tail # << >> THEN Mean(tail) ELSE NaN

\* the volatility guard off by one: "len(r) > 2" (the mutant)
AnnVolPctShort(r) ==
    IF Len(r) > 2 THEN AnnualizedPct(Variance(r)) ELSE NaN

\* "(r.std() * 365 ** 0.5) if len(r) > 1 else nan", times 100
AnnVolPct(r) ==
    IF Len(r) > 1 THEN AnnualizedPct(Variance(r)) ELSE NaN

\* "((r.mean() - rf_daily) / r.std()) * 365 ** 0.5" when len(r) > 1 and
\* r.std() > 0: the value is kept as the terms that determine it
Sharpe(r, rf) ==
    IF Len(r) > 1 /\ FGt(Variance(r), F(0))
    THEN [k |-> "sharpe", mean |-> Mean(r), variance |-> Variance(r), rf |-> rf]
    ELSE NaN

AllNaN(n) ==
    [obs |-> n, cum_return_pct |-> NaN, max_drawdown_pct |-> NaN,
     var_pct |-> NaN, es_pct |-> NaN, ann_vol_pct |-> NaN, sharpe |-> NaN]

\* compute_chain_metrics on the date-sorted values of one chain
MetricsOfSeries(s, conf, rf) ==
    IF Len(s) < 2 THEN AllNaN(Len(s))
    ELSE LET r == pct_change(s)
             var == IF Len(r) > 0 THEN Quantile(r, Alpha(conf)) ELSE NaN
             es == IF Len(r) > 0 THEN ExpectedShortfall(r, var) ELSE NaN
             ann_vol_pct == IF Len(r) > 0 THEN AnnVolPct(r) ELSE NaN
         IN  [obs |-> Len(s),
              cum_return_pct |-> FMul(CumRet(s), F(100)),
              max_drawdown_pct |-> FMul(MaxDD(s), F(100)),
              var_pct |-> FMul(var, F(100)),
              es_pct |-> FMul(es, F(100)),
              ann_vol_pct |-> ann_vol_pct,
              sharpe |-> Sharpe(r, rf)]

\* 'df_chain.sort_values("date")["value"].astype(float)'
ValuesByDate(df_chain, ties) ==
    LET s == SortByDate(df_chain, ties)
    IN  [i \in 1..Len(s) |-> F(s[i].value)]

compute_chain_metrics(df_chain, ties, conf, rf) ==
    MetricsOfSeries(ValuesByDate(df_chain, ties), conf, rf)

ChainRows(tbl, c) == SelectSeq(tbl, LAMBDA r : r.chain = c)

\* the chains of CHAINS present in tbl, in sorted order (groupby keys)
GroupKeys(tbl) ==
    LET all == << "arbitrum", "base", "ethereum" >>
    IN  SelectSeq(all, LAMBDA c : c \in ChainsOf(tbl))

\* "for ch, dfc in df_win.groupby('chain')" and the sort by chain
MetricsTable(tbl, ties, conf, rf) ==
    LET ks == GroupKeys(tbl)
    IN  [i \in 1..Len(ks) |->
            [chain |-> ks[i],
             m |-> compute_chain_metrics(ChainRows(tbl, ks[i]), ties, conf, rf)]]

ComputeMetrics ==
    /\ page = "performance" /\ pc = "rebased"
    /\ metrics_df' = MetricsTable(df_win, sort_ties, cvar_conf, rf_annual)
    /\ pc' = "done"
    /\ UNCHANGED << page, selected_chains, frames, warnings, df_all, df_daily,
                    global_min, global_max, preset, custom_start, custom_end,
                    start_date, end_date, rebase, sort_ties, df_win,
                    cvar_conf, rf_annual >>
    /\ UNCHANGED << messages, compVars >>
    /\ UNCHANGED balVars
    /\ UNCHANGED libVars

(***************************************************************************)
(* Index Composition page: loading and daily reduction (lines 44-56 and    *)
(* 127-140).  A snapshot of the feed is a timestamp with the parallel      *)
(* lists assets and balances; its "value" and "value_btc" columns only     *)
(* feed the chart overlay and are left out.                                *)
(***************************************************************************)
\* str.lower() on the addresses of the model
Lower(a) == CASE a = "0xAA" -> "0xaa" [] OTHER -> a

\* fetch_wedx on a successful response: one row per (snapshot, asset).  snap
\* is the snapshot a row was exploded from (the index explode leaves, which
\* reset_index drops); no step of the page reads it
fetch_wedx(data) ==
    IF data = << >> THEN << >>
    ELSE Concat([i \in 1..Len(data) |->
            [k \in 1..Len(data[i].assets) |->
                [timestamp |-> data[i].timestamp,
                 datetime |-> data[i].timestamp,
                 asset |-> data[i].assets[k],
                 balance |-> data[i].balances[k],
                 snap |-> i]]])

\* the sort key ["date", "datetime"] of each row
DateTimeKey(tbl) == [i \in 1..Len(tbl) |-> << tbl[i].date, tbl[i].datetime >>]

\* df_w["date"] = df_w["datetime"].dt.date
WithDate(tbl) ==
    [i \in 1..Len(tbl) |->
        [timestamp |-> tbl[i].timestamp, datetime |-> tbl[i].datetime,
         asset |-> tbl[i].asset, balance |-> tbl[i].balance,
         snap |-> tbl[i].snap, date |-> DateOf(tbl[i].datetime)]]

\* idx_last and df_last_per_day: per date, (date, timestamp, datetime) of the
\* first row that holds the day's maximum datetime
last_per_day(w) ==
    LET s == StableSort(w, DateTimeKey(w))
        grp(i) == {j \in 1..Len(s) : s[j].date = s[i].date}
        idx == {i \in 1..Len(s) : i = idxmax(s, grp(i))}
    IN  {[date |-> s[i].date, timestamp |-> s[i].timestamp,
          datetime |-> s[i].datetime] : i \in idx}

\* df_w.merge(df_last_per_day, how="inner", on=["date","timestamp","datetime"])
comp_daily(w) ==
    SelectSeq(w, LAMBDA r :
        [date |-> r.date, timestamp |-> r.timestamp, datetime |-> r.datetime]
            \in last_per_day(w))

StopLoadFailed == Message("error", "Failed to load WEDX data", "")
StopNoFeed == Message("warning", "No WEDX data available for this chain.", "")

\* lines 127-140: load the feed, stop on a failure or an empty feed, reduce
CompLoad ==
    /\ page = "composition" /\ pc = "fetch"
    /\ \/ /\ messages' = Append(messages, StopLoadFailed)
          /\ pc' = "stopped"
          /\ UNCHANGED << df_w, df_daily >>
       \/ /\ df_w' = WithDate(fetch_wedx(wedx))
          /\ IF df_w' = << >>
             THEN /\ messages' = Append(messages, StopNoFeed)
                  /\ pc' = "stopped"
                  /\ UNCHANGED df_daily
             ELSE /\ df_daily' = comp_daily(df_w')
                  /\ pc' = "daily"
                  /\ UNCHANGED messages
    /\ UNCHANGED << page, selected_chains, frames, warnings, df_all,
                    global_min, global_max, preset, custom_start, custom_end,
                    start_date, end_date, rebase, sort_ties, df_win,
                    cvar_conf, rf_annual, metrics_df >>
    /\ UNCHANGED << wedx, exc, price_map, nearest_tol_hours, top_n,
                    event_threshold, miss_ct, dfv, alloc, alloc_top, hhi,
                    turnover, events, avg_effN, avg_turn >>
    /\ UNCHANGED balVars
    /\ UNCHANGED libVars

(***************************************************************************)
(* Index Composition page: period-window resolution (lines 112-151).       *)
(***************************************************************************)
CompPresets == {"Last 30 days", "Last 90 days", "YTD", "All", "Custom range"}

\* preset_to_range on the Index Composition page
comp_preset_to_range(gmin, gmax, p, cs, ce) ==
    LET today == gmax IN
    CASE p = "Last 30 days" -> << today - 30, today >>
      [] p = "Last 90 days" -> << today - 90, today >>
      [] p = "YTD" -> << Jan1(YearOf(today)), today >>
      [] p = "All" -> << gmin, gmax >>
      [] OTHER -> << cs, ce >>

\* st.warning("No data in the selected window.")
CompNoDataInWindow == Message("warning", "No data in the selected window.", "")

\* lines 142-151 of the Index Composition page
CompResolveWindow ==
    /\ page = "composition" /\ pc = "daily"
    /\ global_min' = SetMin(DatesOf(df_daily))
    /\ global_max' = SetMax(DatesOf(df_daily))
    /\ \E p \in CompPresets :
        /\ preset' = p
        /\ LET w == ClampWindow(comp_preset_to_range(global_min', global_max', p,
                                                     custom_start, custom_end),
                                global_min', global_max')
           IN  /\ start_date' = w[1] /\ end_date' = w[2]
               /\ df_win' = InWindow(df_daily, w[1], w[2])
               /\ pc' = IF df_win' = << >> THEN "stopped" ELSE "windowed"
               /\ messages' = IF df_win' = << >>
                               THEN Append(messages, CompNoDataInWindow)
                               ELSE messages
    /\ UNCHANGED << page, selected_chains, frames, warnings, df_all, df_daily,
                    custom_start, custom_end, rebase, sort_ties, cvar_conf,
                    rf_annual, metrics_df >>
    /\ UNCHANGED compVars
    /\ UNCHANGED balVars
    /\ UNCHANGED libVars

(***************************************************************************)
(* Index Composition page: token prices and USD allocation (lines 58-110   *)
(* and 153-197).  The exchange data of the chain is a function from the    *)
(* served token address to its symbol ("" when lines 80-88 find none) and  *)
(* its list of (timestamp, price) pairs.                                   *)
(***************************************************************************)
\* SYMBOL_OVERRIDES: the wrapped-ether address of the chain
WETH == "0x4200000000000000000000000000000000000006"
SYMBOL_OVERRIDES == {WETH}

\* token[:6] + "..." + token[-4:], for the short addresses of the model
Short(a) == a \o "..." \o a

\* the sort key "datetime" of each row
TimeKey(tbl) == [i \in 1..Len(tbl) |-> << tbl[i].datetime >>]

\* lines 94-100: the price list as a table sorted by datetime
prices_df(prices) ==
    LET df == [i \in 1..Len(prices) |->
                  [timestamp |-> prices[i].timestamp, price |-> prices[i].price,
                   datetime |-> prices[i].timestamp]]
    IN  StableSort(df, TimeKey(df))

\* lines 80-92: the symbol of a served token
symbol_for(obj, token) ==
    IF obj.symbol # "" THEN obj.symbol
    ELSE IF token \in SYMBOL_OVERRIDES THEN "WETH"
    ELSE Short(token)

build_price_map(chain_blob) ==
    LET served == {Lower(a) : a \in DOMAIN chain_blob}
        src(tk) == CHOOSE a \in DOMAIN chain_blob : Lower(a) = tk
    IN  [tk \in served \cup SYMBOL_OVERRIDES |->
            IF tk \in served
            THEN [symbol |-> symbol_for(chain_blob[src(tk)], tk),
                  prices_df |-> prices_df(chain_blob[src(tk)].prices)]
            ELSE [symbol |-> "WETH", prices_df |-> << >>]]

StopPricesFailed == Message("error", "Failed to load token prices", "")

\* lines 153-158
CompLoadPrices ==
    /\ page = "composition" /\ pc = "windowed"
    /\ \/ /\ messages' = Append(messages, StopPricesFailed)
          /\ pc' = "stopped"
          /\ UNCHANGED price_map
       \/ /\ price_map' = build_price_map(exc)
          /\ pc' = "priced"
          /\ UNCHANGED messages
    /\ UNCHANGED << page, selected_chains, frames, warnings, df_all, df_daily,
                    global_min, global_max, preset, custom_start, custom_end,
                    start_date, end_date, rebase, sort_ties, df_win,
                    cvar_conf, rf_annual, metrics_df >>
    /\ UNCHANGED << wedx, exc, df_w, nearest_tol_hours, top_n,
                    event_threshold, miss_ct, dfv, alloc, alloc_top, hhi,
                    turnover, events, avg_effN, avg_turn >>
    /\ UNCHANGED balVars
    /\ UNCHANGED libVars

SecPerHour == 3600

\* nearest_price with a tolerance that excludes its bound (the mutant)
nearest_price_exclusive(pm, addr, when, tol_hours) ==
    IF Lower(addr) \notin DOMAIN pm THEN NaN
    ELSE LET dfp == pm[Lower(addr)].prices_df
             tol == tol_hours * SecPerHour
             B == {i \in 1..Len(dfp) : dfp[i].datetime <= when}
             A == {i \in 1..Len(dfp) : dfp[i].datetime >= when}
             bri == IF B # {} /\ when - dfp[SetMax(B)].datetime < tol
                    THEN SetMax(B) ELSE 0
             fri == IF A # {} /\ dfp[SetMin(A)].datetime - when < tol
                    THEN SetMin(A) ELSE 0
             pick == IF bri # 0 /\ fri # 0
                     THEN IF when - dfp[bri].datetime <= dfp[fri].datetime - when
                          THEN bri ELSE fri
                     ELSE IF bri # 0 THEN bri ELSE fri
         IN  IF pick = 0 THEN NaN ELSE F(dfp[pick].price)

\* nearest_price: merge_asof(direction="nearest", tolerance=tol) takes the
\* last price at or before the probe and the first at or after it, drops
\* each if it is further than tol away, and keeps the nearer one (the
\* earlier one at equal distance); None is NaN in the price column
nearest_price(pm, addr, when, tol_hours) ==
    IF Lower(addr) \notin DOMAIN pm THEN NaN
    ELSE LET dfp == pm[Lower(addr)].prices_df
             tol == tol_hours * SecPerHour
             B == {i \in 1..Len(dfp) : dfp[i].datetime <= when}
             A == {i \in 1..Len(dfp) : dfp[i].datetime >= when}
             bri == IF B # {} /\ when - dfp[SetMax(B)].datetime <= tol
                    THEN SetMax(B) ELSE 0
             fri == IF A # {} /\ dfp[SetMin(A)].datetime - when <= tol
                    THEN SetMin(A) ELSE 0
             pick == IF bri # 0 /\ fri # 0
                     THEN IF when - dfp[bri].datetime <= dfp[fri].datetime - when
                          THEN bri ELSE fri
                     ELSE IF bri # 0 THEN bri ELSE fri
         IN  IF pick = 0 THEN NaN ELSE F(dfp[pick].price)

\* line 179
symbol_of(pm, addr) ==
    IF Lower(addr) \in DOMAIN pm THEN pm[Lower(addr)].symbol ELSE Short(addr)

\* lines 174-184: the window with price_usd, symbol and usd_value
Valued(win, pm, tol_hours) ==
    [i \in 1..Len(win) |->
        LET p == nearest_price(pm, win[i].asset, win[i].datetime, tol_hours)
        IN  [date |-> win[i].date, timestamp |-> win[i].timestamp,
             datetime |-> win[i].datetime, asset |-> win[i].asset,
             balance |-> win[i].balance, snap |-> win[i].snap,
             price_usd |-> p, symbol |-> symbol_of(pm, win[i].asset),
             usd_value |-> FMul(F(win[i].balance), p)]]

\* the order of the symbols of the model as Python sorts strings
SymbolRank(s) ==
    CASE s = "A" -> 1 [] s = "B" -> 2 [] s = "C" -> 3 [] s = "D" -> 4
      [] s = "Other" -> 5 [] s = "WETH" -> 6 [] OTHER -> 0

UsdOf(tbl) == [i \in 1..Len(tbl) |-> tbl[i].usd_value]

\* the day total that leaves the largest row out (the mutant)
allocation_partial_total(v) ==
    LET keys == {<< r.date, r.symbol >> : r \in Range(v)}
        key(k) == << k[1], SymbolRank(k[2]) >>
        usd(k) == FSum(UsdOf(SelectSeq(v, LAMBDA r :
                                    r.date = k[1] /\ r.symbol = k[2])))
        tot(d) == FSum(UsdOf(SelectSeq(v, LAMBDA r :
                                    r.date = d /\ r.symbol # "A")))
        at(p) == CHOOSE k \in keys :
                    Cardinality({k2 \in keys : KeyLt(key(k2), key(k))}) = p - 1
    IN  [p \in 1..Cardinality(keys) |->
            [date |-> at(p)[1], symbol |-> at(p)[2],
             usd_value |-> usd(at(p)), day_total |-> tot(at(p)[1]),
             pct |-> FMul(FDiv(usd(at(p)), tot(at(p)[1])), F(100))]]

\* lines 194-197: usd_value summed per (date, symbol), in (date, symbol)
\* order, with the day total and the percentage
allocation(v) ==
    LET keys == {<< r.date, r.symbol >> : r \in Range(v)}
        key(k) == << k[1], SymbolRank(k[2]) >>
        usd(k) == FSum(UsdOf(SelectSeq(v, LAMBDA r :
                                    r.date = k[1] /\ r.symbol = k[2])))
        tot(d) == FSum(UsdOf(SelectSeq(v, LAMBDA r : r.date = d)))
        at(p) == CHOOSE k \in keys :
                    Cardinality({k2 \in keys : KeyLt(key(k2), key(k))}) = p - 1
    IN  [p \in 1..Cardinality(keys) |->
            [date |-> at(p)[1], symbol |-> at(p)[2],
             usd_value |-> usd(at(p)), day_total |-> tot(at(p)[1]),
             pct |-> FMul(FDiv(usd(at(p)), tot(at(p)[1])), F(100))]]

\* the priced table with no row dropped (the mutant)
keep_all_rows(win) == win

\* df_win.dropna(subset=["usd_value"])
dropna_usd_value(win) == SelectSeq(win, LAMBDA r : ~isna(r.usd_value))

MissingPrices == Message("warning", "Missing prices for {miss_ct} rows (outside tolerance or not found). Excluding them from charts/metrics.", "")
StopAllMissing == Message("error", "All rows missing matched prices; increase tolerance.", "")

\* lines 160-197: price every row, warn about the rows without a price, drop
\* them, stop if none is left, aggregate
CompValue ==
    /\ page = "composition" /\ pc = "priced"
    /\ df_win' = Valued(df_win, price_map, nearest_tol_hours)
    /\ miss_ct' = Cardinality({i \in 1..Len(df_win') : isna(df_win'[i].price_usd)})
    /\ dfv' = dropna_usd_value(df_win')
    /\ IF dfv' = << >>
       THEN /\ messages' = messages \o << MissingPrices, StopAllMissing >>
            /\ pc' = "stopped"
            /\ UNCHANGED alloc
       ELSE /\ messages' = IF miss_ct' > 0 THEN Append(messages, MissingPrices)
                                            ELSE messages
            /\ alloc' = allocation(dfv')
            /\ pc' = "alloc"
    /\ UNCHANGED << page, selected_chains, frames, warnings, df_all, df_daily,
                    global_min, global_max, preset, custom_start, custom_end,
                    start_date, end_date, rebase, sort_ties,
                    cvar_conf, rf_annual, metrics_df >>
    /\ UNCHANGED << wedx, exc, df_w, price_map, nearest_tol_hours, top_n,
                    event_threshold, alloc_top, hhi, turnover, events,
                    avg_effN, avg_turn >>
    /\ UNCHANGED balVars
    /\ UNCHANGED libVars

(***************************************************************************)
(* Index Composition page: Top-N grouping, HHI, turnover, rebalancing      *)
(* events and the KPIs (lines 202-245 and 310-318).                        *)
(***************************************************************************)
FAbs(x) == IF isna(x) THEN NaN ELSE [x EXCEPT !.n = Abs(x.n)]

\* pandas' sum: NaN entries are skipped, the empty sum is 0
SumSkipNa(s) == FSum(SelectSeq(s, LAMBDA x : ~isna(x)))

\* pandas' mean: NaN entries are skipped, NaN when nothing is left
MeanSkipNa(s) ==
    LET v == SelectSeq(s, LAMBDA x : ~isna(x))
    IN  IF v = << >> THEN NaN ELSE FDiv(FSum(v), F(Len(v)))

\* pandas' max: NaN entries are skipped, NaN when nothing is left
MaxSkipNa(s) ==
    LET v == {x \in Range(s) : ~isna(x)}
    IN  IF v = {} THEN NaN ELSE CHOOSE x \in v : \A y \in v : FLe(y, x)

RowsOfDate(tbl, d) == SelectSeq(tbl, LAMBDA r : r.date = d)

\* the sort key of sort_values("usd_value", ascending=False)
UsdDescKey(tbl) ==
    [i \in 1..Len(tbl) |->
        << 0 - Cardinality({j \in 1..Len(tbl) :
                                FLt(tbl[j].usd_value, tbl[i].usd_value)}) >>]

\* a single-column sort is not stable: rows of equal usd_value come out in
\* the order the build happens to give
SortByUsdDesc(g, ties) ==
    IF ties = "keep" THEN StableSort(g, UsdDescKey(g))
    ELSE StableSort(Reverse(g), UsdDescKey(Reverse(g)))

\* the sort key ["date", "symbol"] of each row
DateSymbolKey(tbl) ==
    [i \in 1..Len(tbl) |-> << tbl[i].date, SymbolRank(tbl[i].symbol) >>]

Head_n(g, N) == SubSeq(g, 1, Min2(N, Len(g)))
Tail_n(g, N) == SubSeq(g, Min2(N, Len(g)) + 1, Len(g))

\* the body of the loop of group_top_n for the rows g of one date
top_n_of_day(g0, N, ties) ==
    LET g == SortByUsdDesc(g0, ties)
        head == Head_n(g, N)
        tail == Tail_n(g, N)
        other == [date |-> g[1].date, symbol |-> "Other",
                  usd_value |-> SumSkipNa(UsdOf(tail)),
                  day_total |-> g[1].day_total,
                  pct |-> FMul(FDiv(SumSkipNa(UsdOf(tail)), g[1].day_total),
                               F(100))]
    IN  IF tail # << >> THEN Append(head, other) ELSE head

\* group_top_n without the "Other" row (the mutant)
group_top_n_head_only(df_alloc, N, ties) ==
    LET days == Ascending(DatesOf(df_alloc))
        out == Concat([i \in 1..Len(days) |->
                    Head_n(SortByUsdDesc(RowsOfDate(df_alloc, days[i]), ties), N)])
    IN  StableSort(out, DateSymbolKey(out))

group_top_n(df_alloc, N, ties) ==
    LET days == Ascending(DatesOf(df_alloc))
        out == Concat([i \in 1..Len(days) |->
                    top_n_of_day(RowsOfDate(df_alloc, days[i]), N, ties)])
    IN  StableSort(out, DateSymbolKey(out))

PctOf(tbl) == [i \in 1..Len(tbl) |-> tbl[i].pct]

\* line 228-229: HHI and Effective_N per date
hhi_table(df_alloc) ==
    LET days == Ascending(DatesOf(df_alloc))
        sq(x) == FMul(FDiv(x, F(100)), FDiv(x, F(100)))
        h(d) == LET p == PctOf(RowsOfDate(df_alloc, d))
                IN  SumSkipNa([i \in 1..Len(p) |-> sq(p[i])])
    IN  [i \in 1..Len(days) |->
            [date |-> days[i], HHI |-> h(days[i]),
             Effective_N |-> FDiv(F(1), h(days[i]))]]

\* the columns of the pivot: the symbols of the table in sorted order
Columns(df_alloc) ==
    LET S == {df_alloc[i].symbol : i \in 1..Len(df_alloc)}
    IN  [p \in 1..Cardinality(S) |->
            CHOOSE s \in S :
                Cardinality({s2 \in S : SymbolRank(s2) < SymbolRank(s)}) = p - 1]

\* pivot(index="date", columns="symbol", values="pct").fillna(0.0): the cell
\* of a symbol absent on the date, and a cell whose pct is NaN, are 0
pivot_cell(df_alloc, d, s) ==
    LET hit == SelectSeq(df_alloc, LAMBDA r : r.date = d /\ r.symbol = s)
    IN  IF hit = << >> \/ isna(hit[1].pct) THEN F(0) ELSE hit[1].pct

\* piv.diff().abs(): one row of cells per date, all NaN on the first date
abs_diff(df_alloc) ==
    LET days == Ascending(DatesOf(df_alloc))
        cols == Columns(df_alloc)
    IN  [i \in 1..Len(days) |->
            [c \in 1..Len(cols) |->
                IF i = 1 THEN NaN
                ELSE FAbs(FSub(pivot_cell(df_alloc, days[i], cols[c]),
                               pivot_cell(df_alloc, days[i - 1], cols[c])))]]

\* turnover_series without the factor 0.5 (the mutant)
turnover_series_full(df_alloc) ==
    LET days == Ascending(DatesOf(df_alloc))
        delta == abs_diff(df_alloc)
    IN  [i \in 1..Len(days) |->
            [date |-> days[i], Turnover_pct |-> SumSkipNa(delta[i])]]

\* turnover_series with a quarter of the summed changes (the mutant)
turnover_series_quarter(df_alloc) ==
    LET days == Ascending(DatesOf(df_alloc))
        delta == abs_diff(df_alloc)
    IN  [i \in 1..Len(days) |->
            [date |-> days[i],
             Turnover_pct |-> FMul(SumSkipNa(delta[i]), Rat(1, 4))]]

turnover_series(df_alloc) ==
    LET days == Ascending(DatesOf(df_alloc))
        delta == abs_diff(df_alloc)
    IN  [i \in 1..Len(days) |->
            [date |-> days[i],
             Turnover_pct |-> FMul(SumSkipNa(delta[i]), Rat(1, 2))]]

\* rebalance_events with a threshold that excludes its bound (the mutant)
rebalance_events_exclusive(df_alloc, thresh_pct) ==
    LET days == Ascending(DatesOf(df_alloc))
        delta == abs_diff(df_alloc)
        max_abs == [i \in 1..Len(days) |->
                       [date |-> days[i], MaxAbsDelta_pct |-> MaxSkipNa(delta[i])]]
    IN  SelectSeq(max_abs, LAMBDA r : FLt(thresh_pct, r.MaxAbsDelta_pct))

rebalance_events(df_alloc, thresh_pct) ==
    LET days == Ascending(DatesOf(df_alloc))
        delta == abs_diff(df_alloc)
        max_abs == [i \in 1..Len(days) |->
                       [date |-> days[i], MaxAbsDelta_pct |-> MaxSkipNa(delta[i])]]
    IN  SelectSeq(max_abs, LAMBDA r : FLe(thresh_pct, r.MaxAbsDelta_pct))

\* lines 310-311: the mean of a column over the rows inside the window
window_mean(tbl, col, s, e) ==
    LET w == InWindow(tbl, s, e)
    IN  MeanSkipNa([i \in 1..Len(w) |-> w[i][col]])

\* lines 202-245 and 310-311
CompAnalytics ==
    /\ page = "composition" /\ pc = "alloc"
    /\ \E ties \in TieOrders :
        /\ sort_ties' = ties
        /\ alloc_top' = group_top_n(alloc, top_n, ties)
    /\ hhi' = hhi_table(alloc)
    /\ turnover' = turnover_series(alloc)
    /\ events' = rebalance_events(alloc, event_threshold)
    /\ avg_effN' = window_mean(hhi', "Effective_N", start_date, end_date)
    /\ avg_turn' = window_mean(turnover', "Turnover_pct", start_date, end_date)
    /\ pc' = "done"
    /\ UNCHANGED << page, selected_chains, frames, warnings, df_all, df_daily,
                    global_min, global_max, preset, custom_start, custom_end,
                    start_date, end_date, rebase, df_win,
                    cvar_conf, rf_annual, metrics_df, messages >>
    /\ UNCHANGED << wedx, exc, df_w, price_map, nearest_tol_hours, top_n,
                    event_threshold, miss_ct, dfv, alloc >>
    /\ UNCHANGED balVars
    /\ UNCHANGED libVars

(***************************************************************************)
(* Treasury and Accounting pages (src/pages/4_*_Treasury.py and            *)
(* src/pages/4_*_Accounting.py).  The two scripts share their             *)
(* configuration, RPC helpers and compute_balances; the Accounting page   *)
(* adds the revenue-stats endpoint and takes its KPIs from it.             *)
(***************************************************************************)
BalChains == << "Ethereum", "Base", "Arbitrum" >>

TREASURY_CONTRACTS ==
    [c \in Range(BalChains) |->
        CASE c = "Ethereum" -> "0x9cd8d94f69ed3ca784231e162905745c436d22bc"
          [] c = "Base" -> "0x9b2ae23a9693475f0588e09e814d6977821c1492"
          [] OTHER -> "0x5f2d9c9619807182a9c3353ff67fd695b6d1b892"]

PROTOCOL_OWNER == "0x383Ea62B67fe18CF201E065DB93Cb830D2cD3677"
WEDT_TOKENS == TREASURY_CONTRACTS

\* the decimals that erc20_decimals falls back to
DefaultDecimals == 18

\* a call of a cached function with its arguments (dec is the decimals
\* argument of the two ERC-20 helpers, 0 where there is none)
CallKey(fn, chain, address, dec) ==
    [fn |-> fn, chain |-> chain, address |-> address, dec |-> dec]

EthBalanceKey(chain, address) == CallKey("get_eth_balance", chain, address, 0)
DecimalsKey(chain) ==
    CallKey("erc20_decimals", chain, WEDT_TOKENS[chain], DefaultDecimals)
BalanceOfKey(chain, dec) ==
    CallKey("erc20_balance_of", chain, WEDT_TOKENS[chain], dec)
PriceKey == CallKey("get_eth_price_usd", "", "", 0)

\* the balance calls of compute_balances, in the order it makes them
BalanceCalls ==
    [k \in 1..9 |->
        [section |-> CASE k <= 3 -> "treasury" [] k <= 6 -> "owner ETH"
                       [] OTHER -> "WEDT",
         chain |-> BalChains[((k - 1) % 3) + 1]]]

PriceLookup == [section |-> "ETH price", chain |-> ""]

\* f"{chain} (treasury): {e}", f"{chain} (owner ETH): {e}",
\* f"{chain} (WEDT): {e}", f"ETH price: {e}"
\* a warning line that does not name the chain (the mutant)
ErrorLineNoChain(call) == [chain |-> "", label |-> call.section]

ErrorLine(call) == [chain |-> call.chain, label |-> call.section]

\* what the chains and the price API can answer in this model
TreasuryAmounts == {0, 1}
OwnerAmounts == {1, 2}
WedtAmounts == {1}
PricesUsd == {2000}

Cached(key) == \E e \in cache : e.key = key
CachedValue(key) == (CHOOSE e \in cache : e.key = key).value

\* a call of an st.cache_data function: served from the cache, or sent to
\* the network, where it raises or returns one of the values
Outcomes(key, values) ==
    IF Cached(key)
    THEN {[hit |-> TRUE, ok |-> TRUE, v |-> CachedValue(key)]}
    ELSE {[hit |-> FALSE, ok |-> FALSE, v |-> NaN]}
         \cup {[hit |-> FALSE, ok |-> TRUE, v |-> F(a)] : a \in values}

\* the cache after the call: only a value that was returned is stored
Stored(key, o) ==
    IF o.hit \/ ~o.ok THEN {} ELSE {[key |-> key, value |-> o.v]}

Sent(key, o) == IF o.hit THEN << >> ELSE << key >>

BalanceRow(section, source, chain, address, amount) ==
    [section |-> section, source |-> source, chain |-> chain,
     address |-> address, amount |-> amount]

\* lines 24-28: without the Infura key the page shows an error and stops
MissingInfuraKey ==
    Message("error", "Missing Infura key in Streamlit secrets.", "")

CheckKey ==
    /\ page \in {"treasury", "accounting"} /\ pc = "key"
    /\ IF infura_key = ""
       THEN /\ messages' = Append(messages, MissingInfuraKey)
            /\ pc' = "stopped"
       ELSE /\ messages' = messages
            /\ pc' = "sidebar"
    /\ UNCHANGED << page, selected_chains, frames, warnings, df_all, df_daily,
                    global_min, global_max, preset, custom_start, custom_end,
                    start_date, end_date, rebase, sort_ties, df_win,
                    cvar_conf, rf_annual, metrics_df, compVars, balVars >>
    /\ UNCHANGED libVars

\* lines 33-41: the button's branch runs get_eth_balance.clear() at line 37,
\* but a run of the script binds get_eth_balance only at line 54 (each run
\* starts from an empty namespace), so the branch raises NameError before
\* any cache is cleared and before st.rerun()
Sidebar ==
    /\ page \in {"treasury", "accounting"} /\ pc = "sidebar"
    /\ pc' = IF refresh THEN "crashed" ELSE "balances"
    /\ UNCHANGED << page, selected_chains, frames, warnings, df_all, df_daily,
                    global_min, global_max, preset, custom_start, custom_end,
                    start_date, end_date, rebase, sort_ties, df_win,
                    cvar_conf, rf_annual, metrics_df, messages, compVars,
                    balVars >>
    /\ UNCHANGED libVars

\* one iteration of the three loops of compute_balances
BalanceCall ==
    /\ page \in {"treasury", "accounting"} /\ pc = "balances"
    /\ Len(attempts) < 9
    /\ LET call == BalanceCalls[Len(attempts) + 1]
           chain == call.chain
       IN  /\ attempts' = Append(attempts, call)
           /\ \/ /\ call.section = "treasury"
                 /\ \E o \in Outcomes(EthBalanceKey(chain, TREASURY_CONTRACTS[chain]),
                                      TreasuryAmounts) :
                     /\ requests' = requests \o Sent(EthBalanceKey(chain, TREASURY_CONTRACTS[chain]), o)
                     /\ cache' = cache \cup Stored(EthBalanceKey(chain, TREASURY_CONTRACTS[chain]), o)
                     /\ IF o.ok
                        THEN /\ treasury_rows' = Append(treasury_rows,
                                    BalanceRow("Treasury", "Treasury ETH", chain,
                                               TREASURY_CONTRACTS[chain], o.v))
                             /\ errors' = errors
                        ELSE /\ errors' = Append(errors, ErrorLine(call))
                             /\ treasury_rows' = treasury_rows
                 /\ UNCHANGED << owner_eth_rows, owner_wedt_rows, owner_eth_total >>
              \/ /\ call.section = "owner ETH"
                 /\ \E o \in Outcomes(EthBalanceKey(chain, PROTOCOL_OWNER), OwnerAmounts) :
                     /\ requests' = requests \o Sent(EthBalanceKey(chain, PROTOCOL_OWNER), o)
                     /\ cache' = cache \cup Stored(EthBalanceKey(chain, PROTOCOL_OWNER), o)
                     /\ IF o.ok
                        THEN /\ owner_eth_total' = FAdd(owner_eth_total, o.v)
                             /\ owner_eth_rows' = Append(owner_eth_rows,
                                    BalanceRow("Protocol Revenue", "Owner ETH", chain,
                                               PROTOCOL_OWNER, o.v))
                             /\ errors' = errors
                        ELSE /\ errors' = Append(errors, ErrorLine(call))
                             /\ UNCHANGED << owner_eth_rows, owner_eth_total >>
                 /\ UNCHANGED << treasury_rows, owner_wedt_rows >>
              \/ /\ call.section = "WEDT"
                 \* erc20_decimals returns its default on any failure, and
                 \* that value is cached like any other
                 /\ \E d \in Outcomes(DecimalsKey(chain), {DefaultDecimals}) :
                    LET dec == DefaultDecimals
                        decStored == IF d.hit THEN {}
                                     ELSE {[key |-> DecimalsKey(chain), value |-> F(dec)]}
                    IN  \E o \in Outcomes(BalanceOfKey(chain, dec), WedtAmounts) :
                         /\ requests' = requests \o Sent(DecimalsKey(chain), d)
                                                 \o Sent(BalanceOfKey(chain, dec), o)
                         /\ cache' = cache \cup decStored
                                           \cup Stored(BalanceOfKey(chain, dec), o)
                         /\ IF o.ok
                            THEN /\ owner_wedt_rows' = Append(owner_wedt_rows,
                                        BalanceRow("Protocol Revenue", "WEDT", chain,
                                                   WEDT_TOKENS[chain], o.v))
                                 /\ errors' = errors
                            ELSE /\ errors' = Append(errors, ErrorLine(call))
                                 /\ owner_wedt_rows' = owner_wedt_rows
                 /\ UNCHANGED << treasury_rows, owner_eth_rows, owner_eth_total >>
    /\ UNCHANGED << page, pc, selected_chains, frames, warnings, df_all, df_daily,
                    global_min, global_max, preset, custom_start, custom_end,
                    start_date, end_date, rebase, sort_ties, df_win,
                    cvar_conf, rf_annual, metrics_df, messages, compVars >>
    /\ UNCHANGED << infura_key, refresh, eth_usd, totals_stats, kpis >>
    /\ UNCHANGED libVars

\* the price lookup that ends compute_balances: NaN on a failure
PriceCall ==
    /\ page \in {"treasury", "accounting"} /\ pc = "balances"
    /\ Len(attempts) = 9
    /\ attempts' = Append(attempts, PriceLookup)
    /\ \E o \in Outcomes(PriceKey, PricesUsd) :
         /\ requests' = requests \o Sent(PriceKey, o)
         /\ cache' = cache \cup Stored(PriceKey, o)
         /\ IF o.ok
            THEN eth_usd' = o.v /\ errors' = errors
            ELSE eth_usd' = NaN /\ errors' = Append(errors, ErrorLine(PriceLookup))
    /\ pc' = IF page = "accounting" THEN "stats" ELSE "report"
    /\ UNCHANGED << page, selected_chains, frames, warnings, df_all, df_daily,
                    global_min, global_max, preset, custom_start, custom_end,
                    start_date, end_date, rebase, sort_ties, df_win,
                    cvar_conf, rf_annual, metrics_df, messages, compVars >>
    /\ UNCHANGED << infura_key, refresh, treasury_rows, owner_eth_rows,
                    owner_wedt_rows, owner_eth_total, totals_stats, kpis >>
    /\ UNCHANGED libVars

\* what the revenue-stats endpoint can carry under "totals"
StatsTotals == {[total_revenue |-> 5, total_profit |-> 3]}

\* an optional value: Python's None, or a value
NoValue == << >>
Some(x) == << x >>

StatsUnavailable == Message("warning", "Stats endpoint unavailable", "")

\* Accounting lines 98-112 and 170: the request fails (a warning, None), or
\* the body has no "totals", or it has them
FetchStats ==
    /\ page = "accounting" /\ pc = "stats"
    /\ \/ /\ messages' = Append(messages, StatsUnavailable)
          /\ totals_stats' = NoValue
       \/ /\ messages' = messages
          /\ totals_stats' \in {NoValue} \cup {Some(t) : t \in StatsTotals}
    /\ pc' = "report"
    /\ UNCHANGED << page, selected_chains, frames, warnings, df_all, df_daily,
                    global_min, global_max, preset, custom_start, custom_end,
                    start_date, end_date, rebase, sort_ties, df_win,
                    cvar_conf, rf_annual, metrics_df, compVars >>
    /\ UNCHANGED << infura_key, refresh, cache, attempts, requests, errors,
                    treasury_rows, owner_eth_rows, owner_wedt_rows,
                    owner_eth_total, eth_usd, kpis >>
    /\ UNCHANGED libVars

\* st.warning("\n".join(errors)); its lines are the variable errors
BalanceWarnings == Message("warning", "errors", "")

CouldNotFetch == Message("error", "Could not fetch any balances.", "")

\* Treasury lines 154-159, Accounting lines 181-186
ReportErrors ==
    /\ page \in {"treasury", "accounting"} /\ pc = "report"
    /\ LET shown == IF errors # << >> THEN Append(messages, BalanceWarnings)
                    ELSE messages
       IN  IF treasury_rows = << >> /\ owner_eth_rows = << >>
              /\ owner_wedt_rows = << >>
           THEN /\ messages' = Append(shown, CouldNotFetch)
                /\ pc' = "stopped"
           ELSE /\ messages' = shown
                /\ pc' = "kpis"
    /\ UNCHANGED << page, selected_chains, frames, warnings, df_all, df_daily,
                    global_min, global_max, preset, custom_start, custom_end,
                    start_date, end_date, rebase, sort_ties, df_win,
                    cvar_conf, rf_annual, metrics_df, compVars, balVars >>
    /\ UNCHANGED libVars

\* the column "amount" of a table and its column "usd_value" = amount * eth_usd
AmountsOf(rows) == [i \in 1..Len(rows) |-> rows[i].amount]
UsdValuesOf(rows, price) == [i \in 1..Len(rows) |-> FMul(rows[i].amount, price)]

\* float(df["amount"].sum()) if not df.empty else 0.0
eth_total(rows) == IF rows = << >> THEN F(0) ELSE SumSkipNa(AmountsOf(rows))

\* float(df["usd_value"].sum()) if not df.empty else 0.0
usd_total(rows, price) ==
    IF rows = << >> THEN F(0) ELSE SumSkipNa(UsdValuesOf(rows, price))

\* protocol_revenue_eth and protocol_revenue_usd
protocol_revenue_eth(oet, wedt_rows) == FAdd(oet, eth_total(wedt_rows))
protocol_revenue_usd(oet, wedt_rows, price) ==
    IF isna(price) THEN NaN ELSE FMul(protocol_revenue_eth(oet, wedt_rows), price)

\* what a KPI box shows: a formatted number, or the placeholder
Number(x) == [shown |-> "number", value |-> x]
Dash == [shown |-> "dash", value |-> NaN]

\* Treasury lines 183-188
TreasuryKpis(tr_rows, wedt_rows, oet, price) ==
    [profit_eth |-> IF isna(protocol_revenue_eth(oet, wedt_rows)) THEN Dash
                    ELSE Number(protocol_revenue_eth(oet, wedt_rows)),
     profit_usd |-> IF isna(protocol_revenue_usd(oet, wedt_rows, price)) THEN Dash
                    ELSE Number(protocol_revenue_usd(oet, wedt_rows, price)),
     revenue_eth |-> Number(eth_total(tr_rows)),
     revenue_usd |-> Number(usd_total(tr_rows, price))]

\* Accounting lines 172-179: the figures of the stats endpoint
fetched_eth(totals, field) ==
    IF totals = NoValue THEN NoValue ELSE Some(F(totals[1][field]))
fetched_usd(totals, field, price) ==
    IF fetched_eth(totals, field) # NoValue /\ ~isna(price)
    THEN Some(FMul(fetched_eth(totals, field)[1], price))
    ELSE NoValue

\* "a if a is not None else (b if pd.notna(b) else None)", then the box
KpiBox(a, b) ==
    IF a # NoValue THEN Number(a[1])
    ELSE IF isna(b) THEN Dash ELSE Number(b)

\* Accounting lines 210-221
AccountingKpis(tr_rows, wedt_rows, oet, price, totals) ==
    [profit_eth |-> KpiBox(fetched_eth(totals, "total_profit"),
                           protocol_revenue_eth(oet, wedt_rows)),
     profit_usd |-> KpiBox(fetched_usd(totals, "total_profit", price),
                           protocol_revenue_usd(oet, wedt_rows, price)),
     revenue_eth |-> KpiBox(fetched_eth(totals, "total_revenue"),
                            eth_total(tr_rows)),
     revenue_usd |-> KpiBox(fetched_usd(totals, "total_revenue", price),
                            usd_total(tr_rows, price))]

\* the totals and the KPI block
ShowKpis ==
    /\ page \in {"treasury", "accounting"} /\ pc = "kpis"
    /\ kpis' = IF page = "treasury"
               THEN TreasuryKpis(treasury_rows, owner_wedt_rows,
                                 owner_eth_total, eth_usd)
               ELSE AccountingKpis(treasury_rows, owner_wedt_rows,
                                   owner_eth_total, eth_usd, totals_stats)
    /\ pc' = "done"
    /\ UNCHANGED << page, selected_chains, frames, warnings, df_all, df_daily,
                    global_min, global_max, preset, custom_start, custom_end,
                    start_date, end_date, rebase, sort_ties, df_win,
                    cvar_conf, rf_annual, metrics_df, messages, compVars >>
    /\ UNCHANGED << infura_key, refresh, cache, attempts, requests, errors,
                    treasury_rows, owner_eth_rows, owner_wedt_rows,
                    owner_eth_total, eth_usd, totals_stats >>
    /\ UNCHANGED libVars

(***************************************************************************)
(* Specification of one render of the Index Performance page.              *)
(***************************************************************************)
\* the sidebar of the Index Composition page at its default values
DefaultTolHours == 24
DefaultTopN == 6
DefaultThreshold == F(5)

\* Python's None where a string is expected
None == "<None>"

\* no get_json call and no ERC-20 helper call has been made
LibUnused ==
    /\ held = [etag |-> None, last_modified |-> None]
    /\ last_ok = [etag |-> None, last_modified |-> None]
    /\ exchange = << >> /\ ncalls = 0
    /\ erc_in = << >> /\ erc_out = << >>

\* the Treasury and Accounting pages before a render of theirs
BalUnused ==
    /\ infura_key = "" /\ refresh = FALSE
    /\ cache = {} /\ attempts = << >> /\ requests = << >>
    /\ errors = << >>
    /\ treasury_rows = << >> /\ owner_eth_rows = << >> /\ owner_wedt_rows = << >>
    /\ owner_eth_total = F(0) /\ eth_usd = NaN
    /\ totals_stats = << >> /\ kpis = << >>

\* what a render has not computed yet on the Index Composition page
CompNotRun ==
    /\ price_map = << >> /\ miss_ct = 0 /\ dfv = << >>
    /\ alloc = << >> /\ alloc_top = << >> /\ hhi = << >>
    /\ turnover = << >> /\ events = << >>
    /\ avg_effN = NaN /\ avg_turn = NaN

\* a render of the Index Performance page leaves the other page's state alone
CompUnused ==
    /\ wedx = << >> /\ exc = << >> /\ df_w = << >>
    /\ nearest_tol_hours = DefaultTolHours /\ top_n = DefaultTopN
    /\ event_threshold = DefaultThreshold
    /\ CompNotRun

\* the selections of the multiselect, in option order
Selections ==
    {s \in UNION {[1..n -> Range(CHAINS)] : n \in 0..Len(CHAINS)} :
        \A i \in 1..(Len(s) - 1) :
            \E a, b \in 1..Len(CHAINS) : a < b /\ CHAINS[a] = s[i] /\ CHAINS[b] = s[i + 1]}

\* what the script has not reached yet: the preset and the checkbox are
\* drawn where the script first uses them, sort_ties at the first sort
Unread ==
    /\ preset = "Last 30 days"
    /\ rebase = TRUE
    /\ sort_ties = "keep"
    /\ start_date = 0 /\ end_date = 0
    /\ metrics_df = << >>

Init ==
    /\ page = "performance" /\ pc = "fetch"
    /\ selected_chains \in Selections
    /\ frames = << >> /\ warnings = << >>
    /\ df_all = << >> /\ df_daily = << >>
    /\ global_min = 0 /\ global_max = 0
    /\ custom_start \in CustomDates /\ custom_end \in CustomDates
    /\ cvar_conf = DefaultConf /\ rf_annual = DefaultRiskFree
    /\ df_win = << >>
    /\ messages = << >>
    /\ Unread /\ CompUnused /\ BalUnused /\ LibUnused

Next ==
    \/ FetchChain
    \/ StopNoFrames
    \/ BuildDaily
    \/ ResolveWindow
    \/ RebaseStep
    \/ ComputeMetrics

Spec == Init /\ [][Next]_vars

(***************************************************************************)
(* Specification of the metrics of one chain: the render has fetched a     *)
(* feed of one observation per day for one chain, the window is "All" and  *)
(* rebasing is off; ComputeMetrics then runs on that series.               *)
(***************************************************************************)
SeriesValues == {0, 1, 2, 3}

\* one observation per day from 2024-01-01 on
DailyFeed(vals) ==
    [i \in 1..Len(vals) |->
        [timestamp |-> (19723 + i - 1) * SecPerDay, value |-> vals[i]]]

\* the state of the render at the metrics section, for the feed raw of "base"
AtMetrics(raw) ==
    /\ page = "performance" /\ pc = "rebased"
    /\ selected_chains = << "base" >>
    /\ frames = << fetch_chain_data("base", raw) >> /\ warnings = << >>
    /\ df_all = ConcatFrames(frames)
    /\ df_daily = DailyReduce(df_all)
    /\ global_min = SetMin(DatesOf(df_daily))
    /\ global_max = SetMax(DatesOf(df_daily))
    /\ preset = "All"
    /\ start_date = global_min /\ end_date = global_max
    /\ df_win = InWindow(df_all, start_date, end_date)
    /\ rebase = FALSE /\ sort_ties = "keep"
    /\ metrics_df = << >>
    /\ messages = << >> /\ CompUnused /\ BalUnused /\ LibUnused

InitMetrics ==
    /\ custom_start \in CustomDates /\ custom_end \in CustomDates
    /\ cvar_conf \in ConfLevels /\ rf_annual \in RiskFree
    /\ \E n \in 1..MaxSeries : \E vals \in [1..n -> SeriesValues] :
            AtMetrics(DailyFeed(vals))

NextMetrics == ComputeMetrics

SpecMetrics == InitMetrics /\ [][NextMetrics]_vars

(***************************************************************************)
(* Specification of the period-window resolution of both pages: the render *)
(* has reduced a feed to its daily table; the window is resolved next.     *)
(***************************************************************************)
\* 2023-10-10, 2023-12-09, 2023-12-31, 2024-01-01, 2024-01-10
WindowDays == {19640, 19700, 19722, 19723, 19732}
\* 2023-08-31, 2023-12-31, 2024-01-03, 2024-01-10, 2024-03-18
WindowCustomDates == {19600, 19722, 19725, 19732, 19800}

\* the Index Performance render of "base" after the daily reduction
AtDaily(raw) ==
    /\ page = "performance" /\ pc = "daily"
    /\ selected_chains = << "base" >>
    /\ frames = << fetch_chain_data("base", raw) >> /\ warnings = << >>
    /\ df_all = ConcatFrames(frames)
    /\ df_daily = DailyReduce(df_all)
    /\ global_min = SetMin(DatesOf(df_daily))
    /\ global_max = SetMax(DatesOf(df_daily))
    /\ df_win = << >>
    /\ messages = << >>
    /\ Unread /\ CompUnused /\ BalUnused /\ LibUnused

\* the Index Composition render after its daily reduction: one snapshot of
\* one asset per day
CompAtDaily(days) ==
    /\ page = "composition" /\ pc = "daily"
    /\ selected_chains = << "base" >>
    /\ frames = << >> /\ warnings = << >> /\ df_all = << >>
    /\ wedx = [i \in 1..Len(days) |->
                  [timestamp |-> days[i] * SecPerDay,
                   assets |-> << WETH >>, balances |-> << 1 >>]]
    /\ exc = [a \in {WETH} |->
                  [symbol |-> "",
                   prices |-> [i \in 1..Len(days) |->
                                  [timestamp |-> days[i] * SecPerDay, price |-> 2]]]]
    /\ df_w = WithDate(fetch_wedx(wedx))
    /\ df_daily = comp_daily(df_w)
    /\ global_min = 0 /\ global_max = 0
    /\ df_win = << >>
    /\ messages = << >>
    /\ nearest_tol_hours = DefaultTolHours /\ top_n = DefaultTopN
    /\ event_threshold = DefaultThreshold
    /\ Unread /\ CompNotRun /\ BalUnused /\ LibUnused

InitWindow ==
    /\ custom_start \in WindowCustomDates /\ custom_end \in WindowCustomDates
    /\ cvar_conf = DefaultConf /\ rf_annual = DefaultRiskFree
    /\ \E D \in (SUBSET WindowDays) \ {{}} :
        \/ AtDaily([i \in 1..Cardinality(D) |->
                        [timestamp |-> Ascending(D)[i] * SecPerDay, value |-> 1]])
        \/ CompAtDaily(Ascending(D))

NextWindow == ResolveWindow \/ CompResolveWindow

SpecWindow == InitWindow /\ [][NextWindow]_vars

(***************************************************************************)
(* Specification of one render of the Index Composition page.  The feed    *)
(* holds up to MaxSnaps snapshots, in the order of their timestamps.       *)
(***************************************************************************)
\* 2023-12-31 00:00, 2023-12-31 01:00 and 2024-01-01 00:00, in seconds
CompTimes == {19722 * SecPerDay, 19722 * SecPerDay + SecPerHour, 19723 * SecPerDay}

\* the holdings of a snapshot: parallel lists of addresses and balances
Portfolios ==
    { [assets |-> << "0xaa" >>, balances |-> << 1 >>],
      [assets |-> << "0xAA", "0xbb" >>, balances |-> << 2, 3 >>],
      [assets |-> << "0xbb" >>, balances |-> << 0 >>] }

Snapshot ==
    {[timestamp |-> ts, assets |-> p.assets, balances |-> p.balances] :
        ts \in CompTimes, p \in Portfolios}

CompFeeds(k) ==
    {s \in UNION {[1..n -> Snapshot] : n \in 0..k} :
        \A i \in 1..(Len(s) - 1) : s[i].timestamp <= s[i + 1].timestamp}

\* price lists: one price at 2023-12-31 00:00; one 25 hours later; both, as
\* served in descending order; one 26 hours later
PricesNow == << [timestamp |-> 19722 * SecPerDay, price |-> 2] >>
PricesLate == << [timestamp |-> 19722 * SecPerDay + 25 * SecPerHour, price |-> 3] >>
PricesBoth == PricesLate \o PricesNow
PricesLater == << [timestamp |-> 19722 * SecPerDay + 26 * SecPerHour, price |-> 5] >>

\* the exchange data the endpoint can serve for the chain
ExcBlobs ==
    { [a \in {"0xaa", "0xbb"} |->
          IF a = "0xaa" THEN [symbol |-> "A", prices |-> PricesBoth]
                        ELSE [symbol |-> "B", prices |-> PricesNow]],
      [a \in {"0xaa", "0xbb"} |->
          IF a = "0xaa" THEN [symbol |-> "A", prices |-> PricesLate]
                        ELSE [symbol |-> "B", prices |-> PricesLater]],
      [a \in {"0xaa"} |-> [symbol |-> "A", prices |-> << >>]],
      [a \in {"0xAA", "0xbb"} |-> [symbol |-> "A", prices |-> PricesNow]] }

TolHours == {1, DefaultTolHours}

InitComp ==
    /\ page = "composition" /\ pc = "fetch"
    /\ selected_chains = << "base" >>
    /\ frames = << >> /\ warnings = << >> /\ df_all = << >>
    /\ wedx \in CompFeeds(MaxSnaps)
    /\ exc \in ExcBlobs
    /\ df_w = << >> /\ df_daily = << >>
    /\ global_min = 0 /\ global_max = 0
    /\ custom_start \in CustomDates /\ custom_end \in CustomDates
    /\ cvar_conf = DefaultConf /\ rf_annual = DefaultRiskFree
    /\ df_win = << >>
    /\ messages = << >>
    /\ nearest_tol_hours \in TolHours
    /\ top_n = DefaultTopN /\ event_threshold = DefaultThreshold
    /\ Unread /\ CompNotRun /\ BalUnused /\ LibUnused

NextComp ==
    \/ CompLoad
    \/ CompResolveWindow
    \/ CompLoadPrices
    \/ CompValue
    \/ CompAnalytics

SpecComp == InitComp /\ [][NextComp]_vars

(***************************************************************************)
(* Specification of the analytics of the Index Composition page: the feed  *)
(* has one snapshot per day from 2023-12-31 on, every token has a price of *)
(* 1 at the time of each snapshot, the window is "All"; the render has     *)
(* reached the allocation table and CompAnalytics runs on it.              *)
(***************************************************************************)
\* the holdings of a day; with prices of 1 the balances are the USD values
DayHoldings ==
    { [assets |-> << "0xaa" >>, balances |-> << 100 >>],
      [assets |-> << "0xaa", "0xbb" >>, balances |-> << 60, 40 >>],
      [assets |-> << "0xaa", "0xbb", "0xcc" >>, balances |-> << 60, 25, 15 >>],
      [assets |-> << "0xaa", "0xbb" >>, balances |-> << 95, 5 >>],
      [assets |-> << "0xaa", "0xbb", "0xcc" >>, balances |-> << 2, 1, 1 >>],
      [assets |-> << "0xaa" >>, balances |-> << 0 >>] }

AllocDay(i) == (19722 + i - 1) * SecPerDay

\* a price of 1 for each token at the time of each snapshot
UnitPrices(n) ==
    [a \in {"0xaa", "0xbb", "0xcc"} |->
        [symbol |-> CASE a = "0xaa" -> "A" [] a = "0xbb" -> "B" [] OTHER -> "C",
         prices |-> [i \in 1..n |-> [timestamp |-> AllocDay(i), price |-> 1]]]]

\* the sidebar settings of a render, as (top_n, event_threshold); the Top-N
\* grouping reads only the first and the events only the second
Sidebars == { << 2, DefaultThreshold >>, << 3, F(20) >> }

\* the state of the render at the analytics section, for the holdings h of
\* consecutive days
AtAlloc(h) ==
    /\ page = "composition" /\ pc = "alloc"
    /\ selected_chains = << "base" >>
    /\ frames = << >> /\ warnings = << >> /\ df_all = << >>
    /\ wedx = [i \in 1..Len(h) |->
                  [timestamp |-> AllocDay(i), assets |-> h[i].assets,
                   balances |-> h[i].balances]]
    /\ exc = UnitPrices(Len(h))
    /\ df_w = WithDate(fetch_wedx(wedx))
    /\ df_daily = comp_daily(df_w)
    /\ global_min = SetMin(DatesOf(df_daily))
    /\ global_max = SetMax(DatesOf(df_daily))
    /\ preset = "All"
    /\ start_date = global_min /\ end_date = global_max
    /\ price_map = build_price_map(exc)
    /\ nearest_tol_hours = DefaultTolHours
    /\ df_win = Valued(InWindow(df_daily, start_date, end_date), price_map,
                       nearest_tol_hours)
    /\ miss_ct = 0
    /\ dfv = dropna_usd_value(df_win)
    /\ alloc = allocation(dfv)
    /\ messages = << >>
    /\ rebase = TRUE /\ sort_ties = "keep" /\ metrics_df = << >>
    /\ alloc_top = << >> /\ hhi = << >> /\ turnover = << >> /\ events = << >>
    /\ avg_effN = NaN /\ avg_turn = NaN
    /\ BalUnused /\ LibUnused

InitAlloc ==
    /\ custom_start \in CustomDates /\ custom_end \in CustomDates
    /\ cvar_conf = DefaultConf /\ rf_annual = DefaultRiskFree
    /\ \E s \in Sidebars : top_n = s[1] /\ event_threshold = s[2]
    /\ \E n \in 1..MaxDays : \E h \in [1..n -> DayHoldings] : AtAlloc(h)

NextAlloc == CompAnalytics

SpecAlloc == InitAlloc /\ [][NextAlloc]_vars

(***************************************************************************)
(* Specification of the rest of a render of either page from the daily     *)
(* table on: window, then rebasing and metrics (Index Performance) or      *)
(* prices, allocation and analytics (Index Composition).                   *)
(***************************************************************************)
\* 2023-12-09, 2023-12-31, 2024-01-10
RenderDays == {19700, 19722, 19732}
\* 2023-08-31, 2024-01-03, 2024-03-18
RenderCustomDates == {19600, 19725, 19800}

InitRender ==
    /\ custom_start \in RenderCustomDates /\ custom_end \in RenderCustomDates
    /\ cvar_conf = DefaultConf /\ rf_annual = DefaultRiskFree
    /\ \E D \in (SUBSET RenderDays) \ {{}} :
        \/ AtDaily([i \in 1..Cardinality(D) |->
                        [timestamp |-> Ascending(D)[i] * SecPerDay, value |-> 1]])
        \/ CompAtDaily(Ascending(D))

NextRender ==
    \/ ResolveWindow
    \/ RebaseStep
    \/ ComputeMetrics
    \/ CompResolveWindow
    \/ CompLoadPrices
    \/ CompValue
    \/ CompAnalytics

SpecRender == InitRender /\ [][NextRender]_vars

(***************************************************************************)
(* Specification of one render of the Treasury or the Accounting page,     *)
(* with the caches empty or holding every call of an earlier render.       *)
(***************************************************************************)
\* the caches after a render in which every call succeeded
WarmCache ==
    {[key |-> EthBalanceKey(c, TREASURY_CONTRACTS[c]), value |-> F(1)] : c \in Range(BalChains)}
    \cup {[key |-> EthBalanceKey(c, PROTOCOL_OWNER), value |-> F(2)] : c \in Range(BalChains)}
    \cup {[key |-> DecimalsKey(c), value |-> F(DefaultDecimals)] : c \in Range(BalChains)}
    \cup {[key |-> BalanceOfKey(c, DefaultDecimals), value |-> F(1)] : c \in Range(BalChains)}
    \cup {[key |-> PriceKey, value |-> F(2000)]}

InitBalances ==
    /\ page \in {"treasury", "accounting"} /\ pc = "key"
    /\ infura_key \in {"", "key"}
    /\ refresh \in BOOLEAN
    /\ cache \in {{}, WarmCache}
    /\ attempts = << >> /\ requests = << >> /\ errors = << >>
    /\ treasury_rows = << >> /\ owner_eth_rows = << >> /\ owner_wedt_rows = << >>
    /\ owner_eth_total = F(0) /\ eth_usd = NaN
    /\ totals_stats = NoValue /\ kpis = << >>
    /\ selected_chains = << >>
    /\ frames = << >> /\ warnings = << >>
    /\ df_all = << >> /\ df_daily = << >>
    /\ global_min = 0 /\ global_max = 0
    /\ custom_start \in CustomDates /\ custom_end \in CustomDates
    /\ cvar_conf = DefaultConf /\ rf_annual = DefaultRiskFree
    /\ df_win = << >>
    /\ messages = << >>
    /\ Unread /\ CompUnused /\ LibUnused

NextBalances ==
    \/ CheckKey
    \/ Sidebar
    \/ BalanceCall
    \/ PriceCall
    \/ FetchStats
    \/ ReportErrors
    \/ ShowKpis

SpecBalances == InitBalances /\ [][NextBalances]_vars

(***************************************************************************)
(* src/lib/services/api.py: get_json and a caller that polls with it,      *)
(* feeding the metadata each call returns into the next call.              *)
(***************************************************************************)
\* "if etag:" - neither None nor the empty string
Truthy(x) == x # None /\ x # ""

\* lines 8-12: the headers of the request beyond User-Agent
request_headers(etag, last_modified) ==
    (IF Truthy(etag) THEN {<< "If-None-Match", etag >>} ELSE {})
    \cup (IF Truthy(last_modified)
          THEN {<< "If-Modified-Since", last_modified >>} ELSE {})

NotModified == "_not_modified"

\* get_json that takes the metadata of a 304 from the response, which
\* carries no validators (the mutant)
get_json_meta_from_response(etag, last_modified, r) ==
    IF r.status = 304
    THEN [raised |-> FALSE, payload |-> NotModified,
          meta |-> [etag |-> None, last_modified |-> None]]
    ELSE IF r.status >= 400 /\ r.status < 600
    THEN [raised |-> TRUE, payload |-> None,
          meta |-> [etag |-> None, last_modified |-> None]]
    ELSE IF ~r.json
    THEN [raised |-> TRUE, payload |-> None,
          meta |-> [etag |-> None, last_modified |-> None]]
    ELSE [raised |-> FALSE, payload |-> r.body,
          meta |-> [etag |-> r.etag, last_modified |-> r.last_modified]]

\* lines 14-19 on the response r: a 304 returns the marker and the caller's
\* validators; raise_for_status raises for 400 <= status < 600; r.json()
\* raises when the body is not JSON; otherwise the body and the response's
\* validators are returned
get_json(etag, last_modified, r) ==
    IF r.status = 304
    THEN [raised |-> FALSE, payload |-> NotModified,
          meta |-> [etag |-> etag, last_modified |-> last_modified]]
    ELSE IF r.status >= 400 /\ r.status < 600
    THEN [raised |-> TRUE, payload |-> None,
          meta |-> [etag |-> None, last_modified |-> None]]
    ELSE IF ~r.json
    THEN [raised |-> TRUE, payload |-> None,
          meta |-> [etag |-> None, last_modified |-> None]]
    ELSE [raised |-> FALSE, payload |-> r.body,
          meta |-> [etag |-> r.etag, last_modified |-> r.last_modified]]

\* the validators of the model: None, or a valid entity tag / HTTP date
\* (neither is ever the empty string)
ETags == {None, "e1", "e2"}
Dates == {None, "d1"}

\* what requests hands back: statuses that requests.get can return (a 3xx
\* other than 304 when there is nothing to follow), with or without a JSON
\* body, with or without validators
Statuses == {200, 204, 300, 304, 404, 500}

\* the validators a response with a body can carry
ResponseValidators ==
    { [etag |-> None, last_modified |-> None],
      [etag |-> "e1", last_modified |-> None],
      [etag |-> "e2", last_modified |-> "d1"] }

Responses ==
    {r \in [status : Statuses, json : BOOLEAN, body : {"", "body"},
            etag : ETags, last_modified : Dates] :
        /\ r.json <=> r.body = "body"
        /\ r.status \in {204, 304} => ~r.json
        /\ [etag |-> r.etag, last_modified |-> r.last_modified] \in ResponseValidators
        /\ ~r.json \/ r.status \in {404, 500}
              => r.etag = None /\ r.last_modified = None}

\* one call of the polling caller: the validators it holds go in, the
\* metadata that comes back replaces them
Poll ==
    /\ page = "api" /\ ncalls < MaxCalls
    /\ ncalls' = ncalls + 1
    /\ \E r \in Responses :
        LET res == get_json(held.etag, held.last_modified, r)
        IN  /\ exchange' = Append(exchange,
                    [etag |-> held.etag,
                     last_modified |-> held.last_modified,
                     headers |-> request_headers(held.etag, held.last_modified),
                     response |-> r, result |-> res])
            /\ held' = IF res.raised THEN held ELSE res.meta
            /\ last_ok' = IF res.raised \/ r.status = 304 THEN last_ok
                          ELSE [etag |-> r.etag, last_modified |-> r.last_modified]
    /\ UNCHANGED << page, pc, selected_chains, frames, warnings, df_all, df_daily,
                    global_min, global_max, preset, custom_start, custom_end,
                    start_date, end_date, rebase, sort_ties, df_win,
                    cvar_conf, rf_annual, metrics_df, messages, compVars,
                    balVars, erc_in, erc_out >>

(***************************************************************************)
(* The ERC-20 helpers of the Treasury and Accounting pages (lines 64-89).  *)
(* Strings are sequences of characters.                                    *)
(***************************************************************************)
\* the selectors of balanceOf(address) and decimals()
SELECTOR_BALANCE == << "7", "0", "a", "0", "8", "2", "3", "1" >>
SELECTOR_DECIMALS == << "0", "x", "3", "1", "3", "c", "e", "5", "6", "7" >>

LowerChar(c) ==
    CASE c = "A" -> "a" [] c = "B" -> "b" [] c = "C" -> "c" [] c = "D" -> "d"
      [] c = "E" -> "e" [] c = "F" -> "f" [] c = "X" -> "x" [] OTHER -> c

\* str.lower()
lower(s) == [i \in 1..Len(s) |-> LowerChar(s[i])]

\* str.replace("0x", ""): every occurrence, left to right
RECURSIVE replace_0x(_)
replace_0x(s) ==
    IF Len(s) < 2 THEN s
    ELSE IF s[1] = "0" /\ s[2] = "x" THEN replace_0x(SubSeq(s, 3, Len(s)))
    ELSE << s[1] >> \o replace_0x(Tail(s))

\* str.rjust(width, fill): fill on the left, never a cut
rjust(s, width, fill) ==
    IF Len(s) >= width THEN s
    ELSE [i \in 1..(width - Len(s)) |-> fill] \o s

\* rjust that fills on the right (the mutant)
balance_of_data_ljust(owner) ==
    << "0", "x" >> \o SELECTOR_BALANCE \o
        (replace_0x(lower(owner)) \o
            [i \in 1..(64 - Len(replace_0x(lower(owner)))) |-> "0"])

\* lines 83-85: the data of the balanceOf(address) call
balance_of_data(owner) ==
    << "0", "x" >> \o SELECTOR_BALANCE \o rjust(replace_0x(lower(owner)), 64, "0")

HexValue(c) ==
    CASE c = "0" -> 0 [] c = "1" -> 1 [] c = "2" -> 2 [] c = "3" -> 3
      [] c = "4" -> 4 [] c = "5" -> 5 [] c = "6" -> 6 [] c = "7" -> 7
      [] c = "8" -> 8 [] c = "9" -> 9 [] c = "a" -> 10 [] c = "b" -> 11
      [] c = "c" -> 12 [] c = "d" -> 13 [] c = "e" -> 14 [] c = "f" -> 15
      [] OTHER -> -1

RECURSIVE HexDigits(_)
HexDigits(s) ==
    IF s = << >> THEN 0 ELSE 16 * HexDigits(SubSeq(s, 1, Len(s) - 1)) + HexValue(s[Len(s)])

\* int(res, 16): the number, or -1 for ValueError
int16(res) ==
    LET low == lower(res)
        digits == IF Len(low) >= 2 /\ low[1] = "0" /\ low[2] = "x"
                  THEN SubSeq(low, 3, Len(low)) ELSE low
    IN  IF digits = << >> \/ \E i \in 1..Len(digits) : HexValue(digits[i]) < 0
        THEN -1 ELSE HexDigits(digits)

\* _eth_call raised (an HTTP error, or "error" in the reply)
Raised == << "r", "a", "i", "s", "e" >>

\* no decimals_hint (None)
NoHint == -1

\* raw / (10 ** dec), as the decimal raw * 10^-dec without trailing zeros
RECURSIVE Decimal(_, _)
Decimal(raw, dec) ==
    IF raw = 0 THEN [digits |-> 0, scale |-> 0]
    ELSE IF dec > 0 /\ raw % 10 = 0 THEN Decimal(raw \div 10, dec - 1)
    ELSE [digits |-> raw, scale |-> dec]

\* lines 82-89 on the result res of its eth_call
erc20_balance_of(res, decimals_hint) ==
    IF res = Raised THEN [raised |-> TRUE, value |-> Decimal(0, 0)]
    ELSE LET raw == IF res # << >> /\ res # << "0", "x" >> THEN int16(res) ELSE 0
             dec == IF decimals_hint # NoHint THEN decimals_hint ELSE 18
         IN  IF raw < 0 THEN [raised |-> TRUE, value |-> Decimal(0, 0)]
             ELSE [raised |-> FALSE, value |-> Decimal(raw, dec)]

\* lines 74-79 on the result res of its eth_call
erc20_decimals(res, default) ==
    IF res = Raised THEN default
    ELSE IF res # << >> /\ res # << "0", "x" >>
    THEN (IF int16(res) < 0 THEN default ELSE int16(res))
    ELSE default

\* one call of each helper on the inputs
CallErc20 ==
    /\ page = "erc20" /\ erc_out = << >>
    /\ erc_out' = << [data |-> balance_of_data(erc_in[1].owner),
                      balance |-> erc20_balance_of(erc_in[1].res, erc_in[1].hint),
                      decimals_data |-> SELECTOR_DECIMALS,
                      decimals |-> erc20_decimals(erc_in[1].res, DefaultDecimals)] >>
    /\ UNCHANGED << page, pc, selected_chains, frames, warnings, df_all, df_daily,
                    global_min, global_max, preset, custom_start, custom_end,
                    start_date, end_date, rebase, sort_ties, df_win,
                    cvar_conf, rf_annual, metrics_df, messages, compVars,
                    balVars, held, last_ok, exchange, ncalls, erc_in >>

(***************************************************************************)
(* Specification of a caller polling with get_json.                        *)
(***************************************************************************)
\* the state of the page variables where no page script runs
NoPage ==
    /\ pc = "lib"
    /\ selected_chains = << >>
    /\ frames = << >> /\ warnings = << >>
    /\ df_all = << >> /\ df_daily = << >>
    /\ global_min = 0 /\ global_max = 0
    /\ custom_start \in CustomDates /\ custom_end \in CustomDates
    /\ cvar_conf = DefaultConf /\ rf_annual = DefaultRiskFree
    /\ df_win = << >>
    /\ messages = << >>
    /\ Unread /\ CompUnused /\ BalUnused

InitApi ==
    /\ page = "api"
    /\ held \in [etag : ETags, last_modified : Dates]
    /\ last_ok = held
    /\ exchange = << >> /\ ncalls = 0
    /\ erc_in = << >> /\ erc_out = << >>
    /\ NoPage

NextApi == Poll

SpecApi == InitApi /\ [][NextApi]_vars

(***************************************************************************)
(* Specification of the ERC-20 helpers on one owner address, one eth_call  *)
(* result and one decimals hint.                                           *)
(***************************************************************************)
Owners ==
    { << "0", "x", "3", "8", "3", "E", "a", "6", "2", "B", "6", "7", "f", "e", "1", "8", "C", "F", "2", "0", "1", "E", "0", "6", "5", "D", "B", "9", "3", "C", "b", "8", "3", "0", "D", "2", "c", "D", "3", "6", "7", "7" >>,
      << "0", "x", "9", "c", "d", "8", "d", "9", "4", "f", "6", "9", "e", "d", "3", "c", "a", "7", "8", "4", "2", "3", "1", "e", "1", "6", "2", "9", "0", "5", "7", "4", "5", "c", "4", "3", "6", "d", "2", "2", "b", "c" >>,
      << "0", "X", "9", "B", "2", "A", "E", "2", "3", "A", "9", "6", "9", "3", "4", "7", "5", "F", "0", "5", "8", "8", "E", "0", "9", "E", "8", "1", "4", "D", "6", "9", "7", "7", "8", "2", "1", "C", "1", "4", "9", "2" >>,
      << "5", "f", "2", "d", "9", "c", "9", "6", "1", "9", "8", "0", "7", "1", "8", "2", "a", "9", "c", "3", "3", "5", "3", "f", "f", "6", "7", "f", "d", "6", "9", "5", "b", "6", "d", "1", "b", "8", "9", "2" >>,
      << "0", "x", "A", "b" >> }

EthCallResults ==
    { Raised, << >>, << "0", "x" >>, << "0", "x", "0" >>, << "0", "x", "1" >>,
      << "0", "x", "1", "2" >>, << "0", "x", "2", "7", "1", "0" >>,
      << "0", "x", "3", "B", "9", "a", "c", "a", "0", "0" >>,
      << "0", "x", "z" >> }

Hints == {NoHint, 0, 6, 18}

InitErc20 ==
    /\ page = "erc20"
    /\ erc_in \in {<< i >> : i \in [owner : Owners, res : EthCallResults, hint : Hints]}
    /\ erc_out = << >>
    /\ held = [etag |-> None, last_modified |-> None]
    /\ last_ok = [etag |-> None, last_modified |-> None]
    /\ exchange = << >> /\ ncalls = 0
    /\ NoPage

NextErc20 == CallErc20

SpecErc20 == InitErc20 /\ [][NextErc20]_vars

(***************************************************************************)
(* Properties of the Index Performance render (specification Spec).        *)
(***************************************************************************)
Windowed == page = "performance" /\ pc \in {"windowed", "rebased", "done"}
DailyBuilt == page = "performance" /\ pc \in {"daily", "windowed", "rebased", "done", "stopped"} /\ df_all # << >>
Rebased == page = "performance" /\ pc \in {"rebased", "done"} /\ rebase

\* the fetched observations, each with its calendar date
Observations ==
    {[chain |-> o.chain, datetime |-> o.datetime, value |-> o.value,
      date |-> DateOf(o.datetime)] : o \in Range(Concat(frames))}

SameDay(o, c, d) == o.chain = c /\ o.date = d

RowsOf(tbl, c, d) == {i \in 1..Len(tbl) : tbl[i].chain = c /\ tbl[i].date = d}

InWin(d) == start_date <= d /\ d <= end_date

\* C1: the windowed table that feeds rebasing, the chart, the CSV and the
\* metrics holds exactly one row per (chain, date) of the daily table inside
\* the window, that row being the latest observation of the day, and a
\* chain's reported observation count is its number of in-window dates.
C1_OneRowPerChainDate ==
    Windowed =>
        /\ \A o \in Observations : InWin(o.date) =>
                Cardinality(RowsOf(df_win, o.chain, o.date)) = 1
        /\ \A i \in 1..Len(df_win) :
                \A o \in Observations : SameDay(o, df_win[i].chain, df_win[i].date)
                    => o.datetime <= df_win[i].datetime
        /\ pc = "done" =>
                \A i \in 1..Len(metrics_df) :
                    metrics_df[i].m.obs =
                        Cardinality({o.date : o \in {x \in Observations :
                            x.chain = metrics_df[i].chain /\ InWin(x.date)}})

\* C2: df_daily has exactly one row per (chain, calendar date) occurring in
\* the input, the row's value is the value of an observation with the
\* maximum timestamp among that chain's observations of that date, and the
\* rows of a chain are in ascending date order.
C2_DailyReduction ==
    DailyBuilt =>
        /\ \A o \in Observations :
                Cardinality(RowsOf(df_daily, o.chain, o.date)) = 1
        /\ \A i \in 1..Len(df_daily) :
                \E o \in Observations :
                    /\ SameDay(o, df_daily[i].chain, df_daily[i].date)
                    /\ o.value = df_daily[i].value
                    /\ \A x \in Observations :
                          SameDay(x, o.chain, o.date) => x.datetime <= o.datetime
        /\ \A i, j \in 1..Len(df_daily) :
                i < j /\ df_daily[i].chain = df_daily[j].chain
                    => df_daily[i].date < df_daily[j].date

\* a day of one chain with two observations of different time and value is
\* reduced to one row, next to a second day
C2_Witness ==
    /\ DailyBuilt
    /\ \E a, b \in Observations :
          /\ SameDay(a, b.chain, b.date)
          /\ a.datetime < b.datetime /\ a.value # b.value
          /\ \E i \in 1..Len(df_daily) :
                SameDay(df_daily[i], b.chain, b.date) /\ df_daily[i].value = b.value

\* the first in-window observation of chain c: its earliest row in df_win
FirstRow(c) ==
    CHOOSE i \in 1..Len(df_win) :
        /\ df_win[i].chain = c
        /\ \A j \in 1..Len(df_win) : df_win[j].chain = c => i <= j

C4_MetricsFromRawValues ==
    LET raw == InWindow(df_all, start_date, end_date) IN
    /\ page = "performance" /\ pc \in {"rebased", "done"} =>
          /\ Len(df_win) = Len(raw)
          /\ \A i \in 1..Len(raw) :
                /\ df_win[i].value = raw[i].value
                /\ df_win[i].chain = raw[i].chain
                /\ df_win[i].date = raw[i].date
    /\ page = "performance" /\ pc = "done" =>
          metrics_df = MetricsTable(raw, sort_ties, cvar_conf, rf_annual)

\* a finished render with rebasing on, an index that differs from the value,
\* and a defined cumulative return
C4_Witness ==
    /\ page = "performance" /\ pc = "done" /\ rebase
    /\ \E i \in 1..Len(df_win) : df_win[i].index # F(df_win[i].value)
    /\ \E i \in 1..Len(metrics_df) :
          /\ ~isna(metrics_df[i].m.cum_return_pct)
          /\ metrics_df[i].m.cum_return_pct # F(0)

(***************************************************************************)
(* Properties of compute_chain_metrics (specification SpecMetrics: one     *)
(* chain, one observation per day).                                        *)
(***************************************************************************)
MetricsDone == page = "performance" /\ pc = "done" /\ Len(metrics_df) = 1

\* the chain's daily values in date order, and its metrics row
V == [i \in 1..Len(df_win) |-> df_win[i].value]
M == metrics_df[1].m

AllMissing(m) ==
    /\ isna(m.cum_return_pct) /\ isna(m.max_drawdown_pct) /\ isna(m.var_pct)
    /\ isna(m.es_pct) /\ isna(m.ann_vol_pct) /\ isna(m.sharpe)

Positive(v) == \A i \in 1..Len(v) : v[i] > 0
AllEqual(v) == \A i, j \in 1..Len(v) : v[i] = v[j]
\* all simple returns v[i+1]/v[i] - 1 of a positive series are equal
EqualReturns(v) ==
    \A i, j \in 1..(Len(v) - 1) : v[i + 1] * v[j] = v[j + 1] * v[i]

C7_ZeroDenominatorMissing ==
    MetricsDone /\ Len(V) >= 2 =>
        /\ \A x \in {M.cum_return_pct, M.max_drawdown_pct, M.var_pct,
                       M.es_pct, M.ann_vol_pct, M.sharpe} : ~IsInf(x)
        /\ V[1] = 0 => isna(M.cum_return_pct) /\ isna(M.max_drawdown_pct)
        /\ (\E i \in 1..(Len(V) - 1) : V[i] = 0) =>
              /\ isna(M.var_pct) /\ isna(M.es_pct)
              /\ isna(M.ann_vol_pct) /\ isna(M.sharpe)

\* the simple returns of the chain, in percent
ReturnsPct ==
    LET r == pct_change([i \in 1..Len(V) |-> F(V[i])])
    IN  [i \in 1..Len(r) |-> FMul(r[i], F(100))]

\* C8: with at least one simple return, the tail of returns <= VaR is not
\* empty, ES is defined and ES <= VaR.
C8_ShortfallBelowVaR ==
    MetricsDone /\ Len(V) >= 2 /\ Len(ReturnsPct) >= 1 =>
        /\ \E i \in 1..Len(ReturnsPct) : FLe(ReturnsPct[i], M.var_pct)
        /\ ~isna(M.es_pct)
        /\ FLe(M.es_pct, M.var_pct)

(***************************************************************************)
(* Properties of the period-window resolution (specification SpecWindow).  *)
(***************************************************************************)
Resolved == pc \in {"windowed", "stopped"} /\ df_daily # << >>

\* C9 as stated: on both pages, for every preset and custom dates, both
\* resolved endpoints lie in [global_min, global_max].
C9_BothEndpointsInRange ==
    Resolved =>
        /\ global_min <= start_date /\ start_date <= global_max
        /\ global_min <= end_date /\ end_date <= global_max

\* C9 as amended: the start is clamped from below and the end from above
\* (start >= global_min, end <= global_max); both endpoints lie in
\* [global_min, global_max] for every preset other than "Custom range",
\* and for "Custom range" whenever the window holds a row.
C9_ClampedOneSided ==
    Resolved =>
        /\ global_min <= start_date /\ end_date <= global_max
        /\ preset # "Custom range" \/ pc = "windowed" =>
              start_date <= global_max /\ global_min <= end_date

\* a custom range wider than the data on each side is cut to the data
C9_Witness ==
    /\ Resolved /\ page = "composition" /\ preset = "Custom range"
    /\ custom_start < global_min /\ global_max < custom_end
    /\ start_date = global_min /\ end_date = global_max
    /\ global_min < global_max

\* January 1st of the year of a date between 2023-01-01 and 2024-12-31
YearStart(d) == IF d >= 19723 THEN 19723 ELSE 19358

\* C10: "Last 7 days" resolves to [max(global_max - 7, global_min),
\* global_max] (2024-01-01..2024-01-10 gives 2024-01-03..2024-01-10) and
\* "YTD" to [max(January 1 of global_max's year, global_min), global_max],
\* whatever the custom date inputs are.
C10_Last7AndYTD ==
    Resolved /\ page = "performance" =>
        /\ preset = "Last 7 days" =>
              /\ start_date = Max2(global_max - 7, global_min)
              /\ end_date = global_max
              /\ global_min = 19723 /\ global_max = 19732 =>
                    start_date = 19725 /\ end_date = 19732
        /\ preset = "YTD" =>
              /\ start_date = Max2(YearStart(global_max), global_min)
              /\ end_date = global_max

\* the example of the claim, with custom dates that differ from the result
C10_Witness ==
    /\ Resolved /\ page = "performance" /\ preset = "Last 7 days"
    /\ global_min = 19723 /\ global_max = 19732
    /\ start_date = 19725 /\ end_date = 19732
    /\ custom_start # start_date /\ custom_end # end_date

(***************************************************************************)
(* Properties of a render past the daily table (specification SpecRender). *)
(***************************************************************************)
\* the window has been resolved and no row of the daily table lies in it
EmptyWindow ==
    /\ pc # "daily"
    /\ \A i \in 1..Len(df_daily) :
          ~(start_date <= df_daily[i].date /\ df_daily[i].date <= end_date)

NoDataWarning == IF page = "performance" THEN NoDataInWindow ELSE CompNoDataInWindow

\* C11: when the resolved window holds no row (always when start > end
\* after clamping) the render shows the "No data in the selected window"
\* warning and stops with nothing computed after the window: no rebased
\* index, no metrics, no prices, no allocation; the box is a warning, the
\* load failures use other boxes, and the warning is shown in no other case.
C11_NoDataWarningAndStop ==
    /\ pc # "daily" /\ start_date > end_date => EmptyWindow
    /\ EmptyWindow =>
          /\ pc = "stopped"
          /\ messages # << >>
          /\ messages[Len(messages)] = NoDataWarning
          /\ NoDataWarning.kind = "warning"
          /\ NoDataWarning \notin {FailedToLoad(c) : c \in Range(CHAINS)}
                                \cup {StopLoadFailed, StopPricesFailed, StopAllMissing}
          /\ df_win = << >> /\ metrics_df = << >> /\ CompNotRun
    /\ (\E i \in 1..Len(messages) : messages[i] = NoDataWarning) => EmptyWindow

\* a custom range whose clamped start lies after its clamped end stops the
\* Index Composition render with the warning
C11_Witness ==
    /\ page = "composition" /\ pc = "stopped"
    /\ preset = "Custom range" /\ start_date > end_date
    /\ messages = << CompNoDataInWindow >>

(***************************************************************************)
(* Properties of the Index Composition render (specification SpecComp).    *)
(***************************************************************************)
\* the rows of the window carry their price: CompValue has run
Priced ==
    /\ page = "composition"
    /\ \/ pc \in {"alloc", "done"}
       \/ pc = "stopped" /\ messages # << >>
                         /\ messages[Len(messages)] = StopAllMissing

\* the price points the endpoint serves for an asset, whatever the case of
\* the address
ServedPrices(addr) ==
    UNION {Range(exc[a].prices) : a \in {x \in DOMAIN exc : Lower(x) = Lower(addr)}}

Distance(pt, when) == Abs(pt.timestamp - when)

\* C12: a row gets the price of a price point nearest in time to its
\* timestamp if and only if that distance is at most the tolerance (a
\* distance equal to the tolerance matches); an asset that is absent from
\* the price map or has no price point gets no price.
C12_NearestWithinTolerance ==
    Priced =>
        \A i \in 1..Len(df_win) :
            LET r == df_win[i]
                P == ServedPrices(r.asset)
                near == {pt \in P : \A q \in P :
                            Distance(pt, r.datetime) <= Distance(q, r.datetime)}
                within == {pt \in near :
                            Distance(pt, r.datetime) <= nearest_tol_hours * SecPerHour}
            IN  /\ within = {} <=> isna(r.price_usd)
                /\ within # {} => \E pt \in within : r.price_usd = F(pt.price)

\* with a tolerance of 24 hours, one row whose nearest price is exactly 24
\* hours away has that price, another whose nearest price is exactly 25
\* hours away has none
C12_Witness ==
    /\ Priced /\ nearest_tol_hours = 24
    /\ \E i, j \in 1..Len(df_win) :
          /\ \E pt \in ServedPrices(df_win[i].asset) :
                /\ Distance(pt, df_win[i].datetime) = 24 * SecPerHour
                /\ df_win[i].price_usd = F(pt.price)
          /\ ServedPrices(df_win[j].asset) # {}
          /\ \A pt \in ServedPrices(df_win[j].asset) :
                Distance(pt, df_win[j].datetime) = 25 * SecPerHour
          /\ isna(df_win[j].price_usd)

\* the rows of the window that have a matched price, in order
WithPrice == SelectSeq(df_win, LAMBDA r : ~isna(r.price_usd))

\* balance * matched price, summed over the rows of tbl of one (date, symbol)
UsdSum(tbl, d, s) ==
    LET g == SelectSeq(tbl, LAMBDA r : r.date = d /\ r.symbol = s)
    IN  FSum([i \in 1..Len(g) |-> FMul(F(g[i].balance), g[i].price_usd)])

DateSymbols(tbl) == {<< tbl[i].date, tbl[i].symbol >> : i \in 1..Len(tbl)}

\* C13: the rows without a matched price are excluded from the USD
\* aggregations, the count of the "Missing prices" warning is the number
\* of rows excluded, the warning is shown exactly when that count is not
\* 0, the remaining rows are aggregated, and the render stops with the
\* "All rows missing" error exactly when every row is excluded.
C13_MissingRowsExcluded ==
    Priced =>
        /\ miss_ct = Len(df_win) - Len(WithPrice)
        /\ dfv = WithPrice
        /\ miss_ct > 0 <=> \E i \in 1..Len(messages) : messages[i] = MissingPrices
        /\ MissingPrices.kind = "warning"
        /\ pc = "stopped" <=> WithPrice = << >>
        /\ (\E i \in 1..Len(messages) : messages[i] = StopAllMissing)
                <=> WithPrice = << >>
        /\ WithPrice # << >> =>
              /\ DateSymbols(alloc) = DateSymbols(WithPrice)
              /\ \A i \in 1..Len(alloc) :
                    alloc[i].usd_value =
                        UsdSum(WithPrice, alloc[i].date, alloc[i].symbol)
              /\ pc = "done" =>
                    /\ DatesOf(hhi) = DatesOf(WithPrice)
                    /\ DatesOf(turnover) = DatesOf(WithPrice)
                    /\ DatesOf(events) \subseteq DatesOf(WithPrice)
                    /\ DateSymbols(alloc_top) \subseteq
                            DateSymbols(WithPrice) \cup
                                {<< d, "Other" >> : d \in DatesOf(WithPrice)}

\* a finished render in which one row was excluded and another was
\* aggregated
C13_Witness ==
    /\ Priced /\ pc = "done"
    /\ miss_ct = 1 /\ Len(dfv) >= 1
    /\ messages = << MissingPrices >>
    /\ alloc # << >>

Allocated == page = "composition" /\ pc \in {"alloc", "done"}

\* the sum of a column over the rows of one date, NaN included
DaySum(tbl, col, d) ==
    LET g == RowsOfDate(tbl, d) IN FSum([i \in 1..Len(g) |-> g[i][col]])

\* usd_value, day_total and pct of every row of the allocation table
AllocationRows ==
    \A i \in 1..Len(alloc) :
        /\ alloc[i].usd_value = UsdSum(dfv, alloc[i].date, alloc[i].symbol)
        /\ alloc[i].day_total = DaySum(alloc, "usd_value", alloc[i].date)
        /\ alloc[i].pct =
              FMul(FDiv(alloc[i].usd_value, alloc[i].day_total), F(100))

CompDailyBuilt == page = "composition" /\ pc # "fetch" /\ df_w # << >>

\* the snapshots of the feed that have rows of date d in the table
SnapsOf(tbl, d) == {tbl[i].snap : i \in {j \in 1..Len(tbl) : tbl[j].date = d}}

\* C20: after the daily reduction one snapshot remains per date of the
\* feed, a snapshot with the maximum timestamp of the date, with all of
\* its rows and no row of another snapshot, also when several snapshots
\* of the day share the maximum timestamp.
C20_OneSnapshotPerDate ==
    CompDailyBuilt =>
        \A d \in DatesOf(df_w) :
            /\ Cardinality(SnapsOf(df_daily, d)) = 1
            /\ \A s \in SnapsOf(df_daily, d) :
                  /\ \A i \in 1..Len(df_w) :
                        df_w[i].date = d => df_w[i].timestamp <= wedx[s].timestamp
                  /\ SelectSeq(df_daily, LAMBDA r : r.date = d)
                        = SelectSeq(df_w, LAMBDA r : r.snap = s)

\* what the reduction does keep: per date, the rows of every snapshot that
\* holds the latest timestamp of the date
C20_DistinctLatest ==
    CompDailyBuilt =>
        \A d \in DatesOf(df_w) :
            LET latest == {s \in SnapsOf(df_w, d) :
                             \A s2 \in SnapsOf(df_w, d) :
                                 wedx[s2].timestamp <= wedx[s].timestamp}
            IN  /\ SnapsOf(df_daily, d) = latest
                /\ SelectSeq(df_daily, LAMBDA r : r.date = d)
                        = SelectSeq(df_w, LAMBDA r : r.snap \in latest)

(***************************************************************************)
(* Properties of the analytics of the Index Composition page               *)
(* (specification SpecAlloc).                                              *)
(***************************************************************************)
Analysed == page = "composition" /\ pc = "done"

\* a row of a table as (symbol, usd_value, day_total, pct)
Cells(tbl) ==
    {<< tbl[i].symbol, tbl[i].usd_value, tbl[i].day_total, tbl[i].pct >> :
        i \in 1..Len(tbl)}

\* C15: per date, group_top_n keeps N rows of largest usd_value unchanged
\* and merges the others into one "Other" row with usd_value the sum of the
\* merged rows and pct that sum / the day total * 100; "Other" is present
\* exactly when the date has more than N symbols; the total usd_value and
\* the total pct of the date are preserved.
C15_TopNGrouping ==
    Analysed =>
        \A d \in DatesOf(alloc) :
            LET all == RowsOfDate(alloc, d)
                top == RowsOfDate(alloc_top, d)
                kept == SelectSeq(top, LAMBDA r : r.symbol # "Other")
                other == SelectSeq(top, LAMBDA r : r.symbol = "Other")
                merged == SelectSeq(all, LAMBDA r :
                              \A k \in 1..Len(kept) : kept[k].symbol # r.symbol)
            IN  /\ Cells(kept) \subseteq Cells(all)
                /\ Len(kept) = Min2(top_n, Len(all))
                /\ \A i \in 1..Len(kept), j \in 1..Len(merged) :
                      FLe(merged[j].usd_value, kept[i].usd_value)
                /\ Len(other) = (IF Len(all) > top_n THEN 1 ELSE 0)
                /\ \A i \in 1..Len(other) :
                      /\ other[i].usd_value = FSum(UsdOf(merged))
                      /\ other[i].day_total = all[1].day_total
                      /\ other[i].pct =
                            FMul(FDiv(FSum(UsdOf(merged)), all[1].day_total), F(100))
                /\ DaySum(alloc_top, "usd_value", d) = DaySum(alloc, "usd_value", d)
                /\ DaySum(alloc_top, "pct", d) = DaySum(alloc, "pct", d)
                /\ DatesOf(alloc_top) = DatesOf(alloc)

\* A = 60, B = 25, C = 15 with N = 2 gives A = 60, B = 25, Other = 15
C15_Witness ==
    /\ Analysed /\ top_n = 2
    /\ \E d \in DatesOf(alloc) :
          /\ {<< r.symbol, r.pct >> : r \in Range(RowsOfDate(alloc, d))}
                = {<< "A", F(60) >>, << "B", F(25) >>, << "C", F(15) >>}
          /\ {<< r.symbol, r.pct >> : r \in Range(RowsOfDate(alloc_top, d))}
                = {<< "A", F(60) >>, << "B", F(25) >>, << "Other", F(15) >>}
          /\ Len(RowsOfDate(alloc_top, d)) = 3

\* the dates of the allocation table in ascending order
AllocDates == Ascending(DatesOf(alloc))

\* the weight of symbol s on date d as the claims read it: its pct, or 0
\* when the date has no row of the symbol
Weight(d, s) ==
    LET hit == SelectSeq(alloc, LAMBDA r : r.date = d /\ r.symbol = s)
    IN  IF hit = << >> THEN F(0) ELSE hit[1].pct

\* the weight with a missing pct counted as 0 as well
WeightOrZero(d, s) == IF isna(Weight(d, s)) THEN F(0) ELSE Weight(d, s)

SymbolsOn(d) == {r.symbol : r \in Range(RowsOfDate(alloc, d))}

\* the symbols of the i-th date and of the date before it, in symbol order
SymbolsAround(i) ==
    LET S == SymbolsOn(AllocDates[i]) \cup SymbolsOn(AllocDates[i - 1])
    IN  [p \in 1..Cardinality(S) |->
            CHOOSE s \in S :
                Cardinality({s2 \in S : SymbolRank(s2) < SymbolRank(s)}) = p - 1]

\* |pct(date) - pct(previous date)| of every symbol of the two dates
WeightChanges(i) ==
    [p \in 1..Len(SymbolsAround(i)) |->
        FAbs(FSub(Weight(AllocDates[i], SymbolsAround(i)[p]),
                  Weight(AllocDates[i - 1], SymbolsAround(i)[p])))]

\* the same with missing weights counted as 0
WeightChangesOrZero(i) ==
    [p \in 1..Len(SymbolsAround(i)) |->
        FAbs(FSub(WeightOrZero(AllocDates[i], SymbolsAround(i)[p]),
                  WeightOrZero(AllocDates[i - 1], SymbolsAround(i)[p])))]

TurnoverOn(d) ==
    LET hit == SelectSeq(turnover, LAMBDA r : r.date = d)
    IN  hit[1].Turnover_pct

TurnoverAfterFirst ==
    LET later == SelectSeq(turnover, LAMBDA r : r.date # AllocDates[1])
    IN  [i \in 1..Len(later) |-> later[i].Turnover_pct]

\* C17: the first date of the allocation table carries no turnover value
\* (no row, or a missing value, never a computed number), and the average
\* turnover is the mean over the dates after the first only.
C17_FirstDateHasNoTurnover ==
    Analysed =>
        /\ \A i \in 1..Len(turnover) :
              turnover[i].date = AllocDates[1] => isna(turnover[i].Turnover_pct)
        /\ avg_turn = MeanSkipNa(TurnoverAfterFirst)

\* the position of date d among the dates of the allocation table
DateIndex(d) == CHOOSE i \in 1..Len(AllocDates) : AllocDates[i] = d

SumsTo100(i) == FSum(PctOf(RowsOfDate(alloc, AllocDates[i]))) = F(100)

\* C29: on every date after the first whose weights, and those of the date
\* before it, sum to 100, 0 <= largest weight change <= turnover <= 100;
\* an event on such a date carries that largest change and its turnover is
\* at least the threshold.
C29_MaxDeltaWithinTurnover ==
    Analysed =>
        /\ \A i \in 2..Len(AllocDates) :
              SumsTo100(i) /\ SumsTo100(i - 1) =>
                  /\ FLe(F(0), MaxSkipNa(WeightChanges(i)))
                  /\ FLe(MaxSkipNa(WeightChanges(i)), TurnoverOn(AllocDates[i]))
                  /\ FLe(TurnoverOn(AllocDates[i]), F(100))
        /\ \A k \in 1..Len(events) :
              LET i == DateIndex(events[k].date)
              IN  i >= 2 /\ SumsTo100(i) /\ SumsTo100(i - 1) =>
                      /\ FLe(events[k].MaxAbsDelta_pct, TurnoverOn(events[k].date))
                      /\ FLe(event_threshold, TurnoverOn(events[k].date))

\* day 1 {A: 100}, day 2 {A: 60, B: 40}, threshold 20: the largest change
\* and the turnover of day 2 are both 40 and day 2 is an event
C29_Witness ==
    /\ Analysed /\ Len(AllocDates) >= 2
    /\ event_threshold = F(20)
    /\ SumsTo100(1) /\ SumsTo100(2)
    /\ MaxSkipNa(WeightChanges(2)) = F(40)
    /\ TurnoverOn(AllocDates[2]) = F(40)
    /\ \E k \in 1..Len(events) :
          events[k].date = AllocDates[2] /\ events[k].MaxAbsDelta_pct = F(40)

HhiOn(d) == SelectSeq(hhi, LAMBDA r : r.date = d)[1]

\* (pct/100)^2 of every row of date d of the full allocation table
SquaredShares(d) ==
    LET p == PctOf(RowsOfDate(alloc, d))
    IN  [i \in 1..Len(p) |-> FMul(FDiv(p[i], F(100)), FDiv(p[i], F(100)))]

HhiOfDefinedWeights ==
    Analysed =>
        \A d \in DatesOf(alloc) :
            (\A r \in Range(RowsOfDate(alloc, d)) : ~isna(r.pct)) =>
                /\ HhiOn(d).HHI = FSum(SquaredShares(d))
                /\ HhiOn(d).Effective_N = FDiv(F(1), HhiOn(d).HHI)
                /\ FSum(PctOf(RowsOfDate(alloc, d))) = F(100)
                /\ FLe(Rat(1, Len(RowsOfDate(alloc, d))), HhiOn(d).HHI)
                /\ FLe(HhiOn(d).HHI, F(1))
                /\ Len(RowsOfDate(alloc_top, d)) < Len(RowsOfDate(alloc, d)) =>
                      HhiOn(d).HHI # FSum([i \in 1..Len(RowsOfDate(alloc_top, d)) |->
                          FMul(FDiv(RowsOfDate(alloc_top, d)[i].pct, F(100)),
                               FDiv(RowsOfDate(alloc_top, d)[i].pct, F(100)))])

(***************************************************************************)
(* Failure handling of the Index Performance render (specification Spec).  *)
(***************************************************************************)
\* how many boxes of messages equal m
Shown(m) == Cardinality({i \in 1..Len(messages) : messages[i] = m})

\* the render has stopped at line 57-58, before any table is built
StoppedAtFetch == pc = "stopped" /\ Shown(NoDataInWindow) = 0

\* C21: a chain whose fetch fails produces one warning and no rows, every
\* selected chain is attempted whatever the outcome of the others, the
\* rows of the chains that loaded are the rows processed, and the render
\* stops before any computation iff no chain was fetched successfully.
C21_FetchFailuresIsolated ==
    page = "performance" =>
        /\ \A c \in Range(CHAINS) :
              Shown(FailedToLoad(c)) =
                  Cardinality({i \in 1..Len(warnings) : warnings[i] = c})
        /\ \A c \in Range(warnings) :
              /\ Shown(FailedToLoad(c)) = 1
              /\ c \in Range(selected_chains)
              /\ \A r \in Range(Concat(frames)) : r.chain # c
        /\ \A r \in Range(Concat(frames)) : r.chain \in Range(selected_chains)
        /\ pc # "fetch" => Len(frames) + Len(warnings) = Len(selected_chains)
        /\ StoppedAtFetch <=> (pc # "fetch" /\ frames = << >>)
        /\ pc \in {"daily", "windowed", "rebased", "done"} =>
              {[chain |-> r.chain, datetime |-> r.datetime, value |-> r.value] :
                  r \in Range(df_all)} = Range(Concat(frames))

\* one chain failed, another one loaded and its rows went on to the tables
C21_Witness ==
    /\ page = "performance" /\ pc \in {"windowed", "rebased", "done"}
    /\ Len(warnings) = 1 /\ Len(frames) >= 1
    /\ Shown(FailedToLoad(warnings[1])) = 1
    /\ df_win # << >>
    /\ \A r \in Range(df_win) : r.chain # warnings[1]

\* C22: no render of the Index Performance page ends in an unhandled
\* error; it completes, or it reaches an explicit stop whose condition is
\* on the page (a load warning per failed chain, the empty-window warning,
\* or an empty chain selection).
C22_NoUnhandledError ==
    page = "performance" =>
        /\ pc # "crashed"
        /\ pc = "stopped" => messages # << >> \/ selected_chains = << >>

(***************************************************************************)
(* Properties of the Treasury and Accounting renders (specification        *)
(* SpecBalances).                                                          *)
(***************************************************************************)
OnBalancePage == page \in {"treasury", "accounting"}

\* compute_balances has returned
BalancesComputed ==
    /\ OnBalancePage
    /\ \/ pc \in {"stats", "report", "kpis", "done"}
       \/ pc = "stopped" /\ attempts # << >>

\* the rows of the table a call's section fills
TableOf(call) ==
    CASE call.section = "treasury" -> treasury_rows
      [] call.section = "owner ETH" -> owner_eth_rows
      [] OTHER -> owner_wedt_rows

RowsFor(call) ==
    Cardinality({i \in 1..Len(TableOf(call)) : TableOf(call)[i].chain = call.chain})

LinesFor(call) ==
    Cardinality({i \in 1..Len(errors) : errors[i] = ErrorLine(call)})

AllTablesEmpty ==
    treasury_rows = << >> /\ owner_eth_rows = << >> /\ owner_wedt_rows = << >>

C24_KpisFromStats ==
    page = "accounting" /\ totals_stats # NoValue => pc # "stopped"

\* C25: a render in which "Refresh balances" was pressed does not end in
\* an error; its sidebar step empties the four caches and starts a new
\* render, so that every balance and the price are requested from the
\* network again; a render without the press removes nothing from the
\* caches.
C25_RefreshInvalidatesCaches ==
    /\ [](OnBalancePage /\ refresh => pc # "crashed")
    /\ [][OnBalancePage /\ refresh /\ pc = "sidebar" =>
              cache' = {} /\ pc' = "key" /\ ~refresh']_vars
    /\ [][OnBalancePage /\ ~refresh => cache \subseteq cache']_vars

(***************************************************************************)
(* Properties of get_json (specification SpecApi).                         *)
(***************************************************************************)
\* the names of the headers of a request
HeaderNames(x) == {h[1] : h \in x.headers}

\* the conditional headers carry exactly the validators passed in
ValidatorsSent(x) ==
    /\ ("If-None-Match" \in HeaderNames(x)) <=> x.etag # None
    /\ ("If-Modified-Since" \in HeaderNames(x)) <=> x.last_modified # None
    /\ \A h \in x.headers :
          /\ h[1] = "If-None-Match" => h[2] = x.etag
          /\ h[1] = "If-Modified-Since" => h[2] = x.last_modified

\* a 304 returns the marker and the validators passed in
NotModifiedReturned(x) ==
    x.response.status = 304 =>
        /\ ~x.result.raised
        /\ x.result.payload = NotModified
        /\ x.result.meta = [etag |-> x.etag, last_modified |-> x.last_modified]

C28_UsdKpisNeedPrice ==
    OnBalancePage /\ pc = "done" =>
        /\ isna(eth_usd) =>
              /\ LinesFor(PriceLookup) = 1
              /\ kpis.profit_usd = Dash /\ kpis.revenue_usd = Dash
              /\ kpis.profit_eth.shown = "number"
              /\ kpis.revenue_eth.shown = "number"
        /\ kpis.profit_usd.shown = "number" =>
              /\ kpis.profit_eth.shown = "number"
              /\ kpis.profit_usd.value = FMul(kpis.profit_eth.value, eth_usd)
        /\ kpis.revenue_usd.shown = "number" =>
              /\ kpis.revenue_eth.shown = "number"
              /\ kpis.revenue_usd.value = FMul(kpis.revenue_eth.value, eth_usd)

\* the window of a render of either index page has been resolved
WindowResolved ==
    /\ page \in {"performance", "composition"}
    /\ pc \in {"windowed", "stopped"}

NoDataShown ==
    \E i \in 1..Len(messages) : messages[i] \in {NoDataInWindow, CompNoDataInWindow}

\* C30: with a preset other than "Custom range", on both pages, the clamped
\* window satisfies global_min <= start <= end = global_max and holds at
\* least one row; the "No data in the selected window" stop takes
\* "Custom range".
C30_PresetWindowNotEmpty ==
    WindowResolved =>
        /\ preset # "Custom range" =>
              /\ global_min <= start_date /\ start_date <= end_date
              /\ end_date = global_max
              /\ InWindow(df_daily, start_date, end_date) # << >>
              /\ df_win # << >>
              /\ pc = "windowed" /\ ~NoDataShown
        /\ pc = "stopped" => preset = "Custom range" /\ NoDataShown

\* days 2023-12-31, 2024-01-01 and 2024-01-10 with "YTD" on the Index
\* Performance page: the window starts on 2024-01-01, after the first day
C30_Witness ==
    /\ WindowResolved /\ page = "performance" /\ preset = "YTD"
    /\ DatesOf(df_daily) = {19722, 19723, 19732}
    /\ global_min = 19722 /\ start_date = 19723
    /\ end_date = 19732 /\ global_max = 19732
    /\ DatesOf(df_win) = {19723, 19732}
    /\ pc = "windowed"

(***************************************************************************)
(* Properties of the ERC-20 helpers.                                       *)
(***************************************************************************)
Erc20Called == page = "erc20" /\ erc_out # << >>

\* the address without its 0x prefix, in either case of the x
WithoutPrefix(owner) ==
    IF Len(owner) >= 2 /\ owner[1] = "0" /\ owner[2] \in {"x", "X"}
    THEN SubSeq(owner, 3, Len(owner)) ELSE owner

RECURSIVE TenTo(_)
TenTo(k) == IF k = 0 THEN 1 ELSE 10 * TenTo(k - 1)

\* the decimal v is raw / 10^dec
IsRawOver(v, raw, dec) ==
    IF raw = 0 THEN v.digits = 0
    ELSE v.scale <= dec /\ raw = v.digits * TenTo(dec - v.scale)

\* C27: the balanceOf data is "0x", the selector 70a08231 and the lower-cased
\* address without prefix, zero-filled on the left to 64 characters (74 in
\* all); an empty or "0x" result is the balance 0; a parsed result is
\* raw / 10^decimals with the hint, or 18 without one; the decimals call
\* uses 0x313ce567 and answers 18 on a failure or an empty result.
C27_Erc20Encoding ==
    Erc20Called =>
        LET in == erc_in[1]
            out == erc_out[1]
            addr == WithoutPrefix(in.owner)
            dec == IF in.hint = NoHint THEN 18 ELSE in.hint
        IN  /\ Len(out.data) = 74
            /\ SubSeq(out.data, 1, 10)
                   = << "0", "x", "7", "0", "a", "0", "8", "2", "3", "1" >>
            /\ \A i \in 11..(74 - Len(addr)) : out.data[i] = "0"
            /\ \A i \in 1..Len(addr) :
                   out.data[74 - Len(addr) + i] = LowerChar(addr[i])
            /\ in.res \in {<< >>, << "0", "x" >>}
                   => ~out.balance.raised /\ out.balance.value.digits = 0
            /\ in.res # Raised /\ in.res # << >> /\ int16(in.res) >= 0
                   => /\ ~out.balance.raised
                      /\ IsRawOver(out.balance.value, int16(in.res), dec)
            /\ out.decimals_data
                   = << "0", "x", "3", "1", "3", "c", "e", "5", "6", "7" >>
            /\ in.res = Raised \/ int16(in.res) < 0 => out.decimals = 18
            /\ in.res # Raised /\ in.res # << >> /\ int16(in.res) >= 0
                   => out.decimals = int16(in.res)

\* a mixed-case owner whose balance result 0x2710 with six decimals is 0.01
C27_Witness ==
    /\ Erc20Called
    /\ erc_in[1].owner[3] = "3" /\ erc_in[1].owner[5] = "3" /\ erc_in[1].owner[6] = "E"
    /\ erc_in[1].res = << "0", "x", "2", "7", "1", "0" >>
    /\ erc_in[1].hint = 6
    /\ erc_out[1].balance = [raised |-> FALSE, value |-> [digits |-> 1, scale |-> 2]]
    /\ erc_out[1].data[38] = "e"

====
